---- MODULE Spec2Model ----
(***************************************************************************)
(* Model of the skill-analysis engine (SkillAnalyzer, services/analyzer.ts), *)
(* of GitHubService (services/githubService.ts: the request layer,         *)
(* parseContributionStats and analyzeUser) and of the load effect of the   *)
(* Analysis page (pages/Analysis.tsx) of TirthDhandhukia30/skilledenough.  *)
(*                                                                         *)
(* Conventions                                                             *)
(*  - JavaScript strings are TLA+ strings; String.prototype.includes and   *)
(*    toLowerCase are computed character by character.                     *)
(*  - A JavaScript Set / Map / object is a sequence in insertion order     *)
(*    (that is the order Array.from and Object.entries produce).           *)
(*  - A null string is Null; an undefined object is Undefined; an object   *)
(*    used as a map is [entries |-> its entries in insertion order].       *)
(*  - A timestamp is an integer number of hours since the model's epoch    *)
(*    (the source counts milliseconds; dayMs is then 24).                  *)
(*  - A floating-point quotient is kept as an exact fraction [num, den];   *)
(*    den = 0 stands for NaN (0/0), and every comparison with it is false. *)
(***************************************************************************)
EXTENDS Integers, Sequences, FiniteSets, TLC

VARIABLES
    frameworkKeywords,  \* SkillAnalyzer.frameworkKeywords (instance field)
    stackPatterns,      \* SkillAnalyzer.stackPatterns     (instance field)
    techStackMapping,   \* SkillAnalyzer.techStackMapping  (instance field)
    user,               \* argument: GitHubUser
    repos,              \* argument: RepositoryWithLanguages[]
    contributions,      \* argument: ContributionStats | undefined
    now,                \* the wall clock read by new Date()
    pc,                 \* "call" before analyzeRepositories, "done" after
    result,             \* the AnalysisResult returned (Undefined before the call)
    levelArgs,          \* arguments of a determineExperienceLevel call
    levelResult,        \* its return value (Null before the call)
    stacksArgs,         \* argument of a detectFullStacks call (detectedTech)
    stacksResult,       \* [stacks |-> its return value] (Undefined before)
    token,              \* whether VITE_GITHUB_TOKEN is set
    nowMs,              \* Date.now(), in milliseconds
    callUrls,           \* the url of every fetchAPI call that will be made
    calls,              \* per call: its position, the request it awaits, outcome
    microtasks,         \* the calls whose continuation is queued, oldest first
    inflightRequests,   \* GitHubService.inflightRequests, in insertion order
    activeRequests,     \* GitHubService.activeRequests
    lastRequestTime,    \* GitHubService.lastRequestTime
    anonWindowStart,    \* GitHubService.anonWindowStart
    anonRequestCount,   \* GitHubService.anonRequestCount
    route,              \* Analysis page: username and compare parameter
    page,               \* Analysis page: the values of its useState hooks
    runs,               \* Analysis page: the analyzeGitHub runs started
    timers              \* the runs whose 220 ms timer is set, oldest first

engineVars == <<frameworkKeywords, stackPatterns, techStackMapping, user, repos,
                contributions, now, pc, result, levelArgs, levelResult,
                stacksArgs, stacksResult>>

serviceVars == <<token, nowMs, callUrls, calls, microtasks, inflightRequests,
                 activeRequests, lastRequestTime, anonWindowStart,
                 anonRequestCount>>

pageVars == <<route, page, runs, timers>>

vars == <<engineVars, serviceVars, pageVars>>

Null == "<null>"

Undefined == [undefined |-> TRUE]

-----------------------------------------------------------------------------
(* Generic helpers for sequences used as JS arrays, Sets and Maps.          *)

Range(s) == {s[i] : i \in 1..Len(s)}

Min(a, b) == IF a <= b THEN a ELSE b

Max(a, b) == IF a >= b THEN a ELSE b

\* Array.prototype.slice(from, to) with 0-based, end-exclusive indices.
Slice(s, from, to) == SubSeq(s, from + 1, Min(to, Len(s)))

\* Array.prototype.filter
Filter(s, Keep(_)) == SelectSeq(s, Keep)

\* Set.prototype.add on an insertion-ordered Set.
SetAdd(s, x) == IF x \in Range(s) THEN s ELSE Append(s, x)

\* new Set(values) / adding every element of an array in order.
RECURSIVE SetAddAll(_, _)
SetAddAll(s, xs) ==
    IF xs = <<>> THEN s ELSE SetAddAll(SetAdd(s, Head(xs)), Tail(xs))

\* Array.prototype.find: the first element satisfying Test, or undefined.
FindFirst(s, Test(_)) ==
    IF \E i \in 1..Len(s) : Test(s[i])
    THEN s[CHOOSE i \in 1..Len(s) :
               Test(s[i]) /\ \A j \in 1..(i - 1) : ~Test(s[j])]
    ELSE Undefined

\* Array.prototype.sort (stable since ES2019) as an insertion sort:
\* Before(a, b) is "compare(a, b) < 0".
InsertSorted(sorted, x, Before(_, _)) ==
    LET at == IF \E k \in 1..Len(sorted) : Before(x, sorted[k])
              THEN CHOOSE k \in 1..Len(sorted) :
                       /\ Before(x, sorted[k])
                       /\ \A j \in 1..(k - 1) : ~Before(x, sorted[j])
              ELSE Len(sorted) + 1
    IN  SubSeq(sorted, 1, at - 1) \o <<x>> \o SubSeq(sorted, at, Len(sorted))

StableSort(s, Before(_, _)) ==
    LET sortedPrefix[i \in 0..Len(s)] ==
            IF i = 0 THEN <<>>
            ELSE InsertSorted(sortedPrefix[i - 1], s[i], Before)
    IN  sortedPrefix[Len(s)]

\* Math.round(n / d) for d > 0: the nearest integer, halves rounded up.
RoundDiv(n, d) == (2 * n + d) \div (2 * d)

-----------------------------------------------------------------------------
(* Strings.                                                                *)

UpperToLower ==
    [A |-> "a", B |-> "b", C |-> "c", D |-> "d", E |-> "e", F |-> "f",
     G |-> "g", H |-> "h", I |-> "i", J |-> "j", K |-> "k", L |-> "l",
     M |-> "m", N |-> "n", O |-> "o", P |-> "p", Q |-> "q", R |-> "r",
     S |-> "s", T |-> "t", U |-> "u", V |-> "v", W |-> "w", X |-> "x",
     Y |-> "y", Z |-> "z"]

\* String.prototype.toLowerCase
RECURSIVE ToLowerCase(_)
ToLowerCase(s) ==
    IF Len(s) <= 1
    THEN (IF s \in DOMAIN UpperToLower THEN UpperToLower[s] ELSE s)
    ELSE LET half == Len(s) \div 2
         IN  ToLowerCase(SubSeq(s, 1, half))
             \o ToLowerCase(SubSeq(s, half + 1, Len(s)))

\* String.prototype.includes
Includes(s, k) ==
    \E i \in 0..(Len(s) - Len(k)) : SubSeq(s, i + 1, i + Len(k)) = k

\* Array.prototype.join
RECURSIVE Join(_, _)
Join(parts, sep) ==
    IF parts = <<>> THEN ""
    ELSE IF Len(parts) = 1 THEN parts[1]
         ELSE parts[1] \o sep \o Join(Tail(parts), sep)

-----------------------------------------------------------------------------
(* Lexicon tables, in Object.entries order.                                *)

FrameworkKeywordsTable == <<
    [name |-> "React",        keywords |-> <<"react", "reactjs">>],
    [name |-> "Next.js",      keywords |-> <<"next.js", "nextjs">>],
    [name |-> "Gatsby",       keywords |-> <<"gatsby">>],
    [name |-> "Angular",      keywords |-> <<"angular", "@angular">>],
    [name |-> "Vue",          keywords |-> <<"vue", "vuejs">>],
    [name |-> "Nuxt.js",      keywords |-> <<"nuxt">>],
    [name |-> "Vite",         keywords |-> <<"vite">>],
    [name |-> "Django",       keywords |-> <<"django">>],
    [name |-> "Flask",        keywords |-> <<"flask">>],
    [name |-> "FastAPI",      keywords |-> <<"fastapi">>],
    [name |-> "Express",      keywords |-> <<"express", "expressjs">>],
    [name |-> "NestJS",       keywords |-> <<"nestjs", "@nestjs">>],
    [name |-> "Spring",       keywords |-> <<"spring", "springboot", "spring-boot">>],
    [name |-> "Laravel",      keywords |-> <<"laravel">>],
    [name |-> "Rails",        keywords |-> <<"rails", "ruby-on-rails">>],
    [name |-> "ASP.NET",      keywords |-> <<"asp.net", "aspnet">>],
    [name |-> "Flutter",      keywords |-> <<"flutter">>],
    [name |-> "React Native", keywords |-> <<"react-native">>],
    [name |-> "TensorFlow",   keywords |-> <<"tensorflow">>],
    [name |-> "PyTorch",      keywords |-> <<"pytorch">>],
    [name |-> "Kubernetes",   keywords |-> <<"kubernetes", "k8s">>],
    [name |-> "Docker",       keywords |-> <<"docker">>],
    [name |-> "AWS",          keywords |-> <<"aws", "amazon-web-services">>],
    [name |-> "Azure",        keywords |-> <<"azure">>],
    [name |-> "GCP",          keywords |-> <<"gcp", "google-cloud">>],
    [name |-> "MongoDB",      keywords |-> <<"mongodb", "mongo">>],
    [name |-> "PostgreSQL",   keywords |-> <<"postgresql", "postgres">>],
    [name |-> "MySQL",        keywords |-> <<"mysql">>],
    [name |-> "Redis",        keywords |-> <<"redis">>],
    [name |-> "Node",         keywords |-> <<"node.js", "nodejs">>],
    [name |-> "GraphQL",      keywords |-> <<"graphql">>],
    [name |-> "Tailwind",     keywords |-> <<"tailwind", "tailwindcss">>],
    [name |-> "Bootstrap",    keywords |-> <<"bootstrap">>],
    [name |-> "Material-UI",  keywords |-> <<"material-ui", "mui">>] >>

StackPatternsTable == <<
    [name |-> "MERN",         components |-> <<"MongoDB", "Express", "React", "Node">>],
    [name |-> "MEAN",         components |-> <<"MongoDB", "Express", "Angular", "Node">>],
    [name |-> "MEVN",         components |-> <<"MongoDB", "Express", "Vue", "Node">>],
    [name |-> "PERN",         components |-> <<"PostgreSQL", "Express", "React", "Node">>],
    [name |-> "LAMP",         components |-> <<"Linux", "Apache", "MySQL", "PHP">>],
    [name |-> "Django Stack", components |-> <<"Django", "PostgreSQL", "Python">>],
    [name |-> "Rails Stack",  components |-> <<"Rails", "PostgreSQL", "Ruby">>],
    [name |-> "JAMstack",     components |-> <<"JavaScript", "API", "Markup">>],
    [name |-> "T3 Stack",     components |-> <<"TypeScript", "tRPC", "Tailwind", "Next.js">>] >>

TechStackMappingTable == <<
    [role |-> "Frontend Developer",
     skills |-> <<"JavaScript", "TypeScript", "HTML", "CSS", "React", "Vue", "Angular">>],
    [role |-> "Backend Developer",
     skills |-> <<"Python", "Java", "Go", "Node.js", "Ruby", "PHP", "C#">>],
    [role |-> "Full Stack Developer",
     skills |-> <<"JavaScript", "TypeScript", "Python", "React", "Node.js", "Express">>],
    [role |-> "Mobile Developer",
     skills |-> <<"Swift", "Kotlin", "Java", "Dart", "Flutter", "React Native">>],
    [role |-> "DevOps Engineer",
     skills |-> <<"Docker", "Kubernetes", "Python", "Go", "Shell", "Terraform">>],
    [role |-> "Data Scientist",
     skills |-> <<"Python", "R", "SQL", "TensorFlow", "PyTorch", "Jupyter">>],
    [role |-> "ML Engineer",
     skills |-> <<"Python", "TensorFlow", "PyTorch", "Scikit-learn", "Keras">>],
    [role |-> "Cloud Engineer",
     skills |-> <<"AWS", "Azure", "GCP", "Terraform", "Docker", "Kubernetes">>],
    [role |-> "Game Developer",
     skills |-> <<"C++", "C#", "Unity", "Unreal Engine", "Godot">>],
    [role |-> "Systems Programmer",
     skills |-> <<"C", "C++", "Rust", "Go", "Assembly">>] >>

-----------------------------------------------------------------------------
(* Text matcher.                                                           *)

\* [...(repo.topics || []), repo.description || '', repo.name || '']
\*     .join(' ').toLowerCase()
\* (topics and name are always present in RepositoryWithLanguages.)
SearchText(repo) ==
    ToLowerCase(Join(repo.topics
                     \o <<IF repo.description = Null THEN "" ELSE repo.description,
                          repo.name>>,
                     " "))

\* keywords.some((keyword) => searchText.includes(keyword))
KeywordHit(keywords, searchText) ==
    \E i \in 1..Len(keywords) : Includes(searchText, keywords[i])

\* The names of the lexicon technologies detected in a text, in table order.
DetectFrameworks(table, searchText) ==
    LET hits == SelectSeq(table, LAMBDA entry : KeywordHit(entry.keywords, searchText))
    IN  [i \in 1..Len(hits) |-> hits[i].name]

\* The search text of every repository, in list order.
RECURSIVE SearchTexts(_)
SearchTexts(rs) ==
    IF rs = <<>> THEN <<>>
    ELSE <<SearchText(Head(rs))>> \o SearchTexts(Tail(rs))

\* The lexicon technologies detected in every text, in list order.
RECURSIVE DetectPerText(_, _)
DetectPerText(table, texts) ==
    IF texts = <<>> THEN <<>>
    ELSE <<DetectFrameworks(table, Head(texts))>>
         \o DetectPerText(table, Tail(texts))

-----------------------------------------------------------------------------
(* Time and numbers.                                                       *)

\* const dayMs = 1000 * 60 * 60 * 24, in the model's unit (hours).
dayMs == 24

\* 1000 * 60 * 60 * 24 * 365 of calculateAccountAge, in hours.
yearMs == dayMs * 365

\* Date.prototype.getFullYear, counted from the epoch year; every model year
\* has 365 days.
GetFullYear(t) == t \div yearMs

\* d.setMonth(d.getMonth() - months): the same instant `months` calendar
\* months earlier, a month being a twelfth of the model year.
MonthsBefore(t, months) == t - (months * yearMs) \div 12

\* A quotient num / den of two integers with den >= 0, kept exact.
Frac(num, den) == [num |-> num, den |-> den]

\* A faulty variant of FracGeq: NaN >= k taken to be true.
FracGeqNaNTrue(q, k) == q.num >= k * q.den

\* q >= k for a fraction q and an integer k; false when q is NaN.
FracGeq(q, k) == q.den > 0 /\ q.num >= k * q.den

\* a > b for fractions; false when either is NaN.
FracGreater(a, b) == a.den > 0 /\ b.den > 0 /\ a.num * b.den > b.num * a.den

\* For every element of s in order, add the elements of F(element) to an
\* insertion-ordered Set (the shape of repos.forEach(... set.add(...))).
AddEach(s, F(_)) ==
    LET acc[i \in 0..Len(s)] ==
            IF i = 0 THEN <<>> ELSE SetAddAll(acc[i - 1], F(s[i]))
    IN  acc[Len(s)]

Indices(s) == [i \in 1..Len(s) |-> i]

Count(s, Test(_)) == Cardinality({i \in 1..Len(s) : Test(s[i])})

RECURSIVE SumSeq(_)
SumSeq(s) == IF s = <<>> THEN 0 ELSE Head(s) + SumSeq(Tail(s))

-----------------------------------------------------------------------------
(* analyzeSkills: language distribution.                                   *)

\* Object.entries(repo.languageStats), or nothing when the map is absent.
LanguageEntries(repo) ==
    IF repo.languageStats = Undefined THEN <<>> ELSE repo.languageStats.entries

\* languageTotals[lang] = (languageTotals[lang] || 0) + bytes
AddBytes(totals, entry) ==
    IF \E i \in 1..Len(totals) : totals[i].language = entry.language
    THEN [i \in 1..Len(totals) |->
              IF totals[i].language = entry.language
              THEN [totals[i] EXCEPT !.bytes = @ + entry.bytes]
              ELSE totals[i]]
    ELSE Append(totals, [language |-> entry.language, bytes |-> entry.bytes])

RECURSIVE AddAllBytes(_, _)
AddAllBytes(totals, entries) ==
    IF entries = <<>> THEN totals
    ELSE AddAllBytes(AddBytes(totals, Head(entries)), Tail(entries))

\* The languageTotals object after the repos.forEach of analyzeSkills.
RECURSIVE LanguageTotals(_)
LanguageTotals(rs) ==
    IF rs = <<>> THEN <<>>
    ELSE AddAllBytes(LanguageTotals(SubSeq(rs, 1, Len(rs) - 1)),
                     LanguageEntries(rs[Len(rs)]))

\* A faulty variant of TopLanguagesKept: the .slice(0, 5) used for detectedTech applied
\* to the language list as well.
TopLanguagesKeptFive == 5

\* .slice(0, 10) of the sorted language list.
TopLanguagesKept == 10

\* .sort((a, b) => b.percentage - a.percentage)
ByPercentageDesc(entries) ==
    StableSort(entries, LAMBDA a, b : FracGreater(a.percentage, b.percentage))

\* topLanguages: (bytes / totalBytes) * 100, sorted descending, first 10.
TopLanguages(rs) ==
    LET totals     == LanguageTotals(rs)
        totalBytes == SumSeq([i \in 1..Len(totals) |-> totals[i].bytes])
        withPct    == [i \in 1..Len(totals) |->
                          [language   |-> totals[i].language,
                           percentage |-> Frac(totals[i].bytes * 100, totalBytes)]]
    IN  Slice(ByPercentageDesc(withPct), 0, TopLanguagesKept)

-----------------------------------------------------------------------------
(* analyzeSkills: frameworks, tools and detected technologies.             *)

\* The tools.add(...) calls of one repository, in source order.
ToolsIn(searchText) ==
    (IF Includes(searchText, "docker") THEN <<"Docker">> ELSE <<>>)
    \o (IF Includes(searchText, "kubernetes") \/ Includes(searchText, "k8s")
        THEN <<"Kubernetes">> ELSE <<>>)
    \o (IF Includes(searchText, "git") THEN <<"Git">> ELSE <<>>)
    \o (IF Includes(searchText, "ci/cd") \/ Includes(searchText, "github-actions")
        THEN <<"CI/CD">> ELSE <<>>)
    \o (IF Includes(searchText, "terraform") THEN <<"Terraform">> ELSE <<>>)
    \o (IF Includes(searchText, "ansible") THEN <<"Ansible">> ELSE <<>>)

\* The detectedTech.add(...) calls of one repository, in source order: the
\* lexicon technologies found in it, then Docker, Kubernetes and Terraform.
DetectedTechIn(frameworksFound, searchText) ==
    frameworksFound
    \o (IF Includes(searchText, "docker") THEN <<"Docker">> ELSE <<>>)
    \o (IF Includes(searchText, "kubernetes") \/ Includes(searchText, "k8s")
        THEN <<"Kubernetes">> ELSE <<>>)
    \o (IF Includes(searchText, "terraform") THEN <<"Terraform">> ELSE <<>>)

Languages(entries) == [i \in 1..Len(entries) |-> entries[i].language]

-----------------------------------------------------------------------------
(* detectFullStacks.                                                       *)

\* techArray.some(tech => tech.includes(comp.toLowerCase())
\*                        || comp.toLowerCase().includes(tech))
\* A faulty variant of ComponentPresent: tech.includes(comp) alone.
ComponentPresentOneWay(techArray, comp) ==
    \E i \in 1..Len(techArray) : Includes(techArray[i], ToLowerCase(comp))

ComponentPresent(techArray, comp) ==
    \E i \in 1..Len(techArray) :
        \/ Includes(techArray[i], ToLowerCase(comp))
        \/ Includes(ToLowerCase(comp), techArray[i])

\* A faulty variant of PatternThreshold: 3 components required of every pattern.
PatternThresholdThree(components) == 3

\* const threshold = components.length >= 4 ? 3 : 2
PatternThreshold(components) == IF Len(components) >= 4 THEN 3 ELSE 2

PatternMatches(techArray, components) ==
    Len(Filter(components, LAMBDA comp : ComponentPresent(techArray, comp)))
        >= PatternThreshold(components)

\* The stack names pushed by the Object.entries(this.stackPatterns) loop.
RECURSIVE PatternStacks(_, _)
PatternStacks(patterns, techArray) ==
    IF patterns = <<>> THEN <<>>
    ELSE (IF PatternMatches(techArray, Head(patterns).components)
          THEN <<Head(patterns).name>> ELSE <<>>)
         \o PatternStacks(Tail(patterns), techArray)

\* The stack names pushed by the hard-coded rules, in source order.
CompositeStacks(tech, stacksSoFar) ==
    LET has(t)      == t \in Range(tech)
        hasReact    == has("React") \/ has("Next.js")
        hasNode     == has("Node") \/ has("Express")
        hasMongo    == has("MongoDB")
        hasPostgres == has("PostgreSQL")
    IN  (IF has("React")
         THEN (IF has("Vite") THEN <<"React + Vite">>
               ELSE IF has("Next.js") THEN <<"Next.js">> ELSE <<>>)
         ELSE <<>>)
        \o (IF has("Vue") /\ has("Vite") THEN <<"Vue + Vite">> ELSE <<>>)
        \o (IF has("Angular") THEN <<"Angular">> ELSE <<>>)
        \o (IF has("Node") \/ has("Express")
            THEN (IF has("TypeScript") THEN <<"Node.js + TypeScript">>
                  ELSE <<"Node.js + Express">>)
            ELSE <<>>)
        \o (IF has("Django") THEN <<"Django">> ELSE <<>>)
        \o (IF has("Spring") THEN <<"Spring Boot">> ELSE <<>>)
        \o (IF /\ hasReact /\ hasNode
               /\ "MERN" \notin Range(stacksSoFar)
               /\ "PERN" \notin Range(stacksSoFar)
            THEN (IF hasMongo THEN <<"MERN Stack">>
                  ELSE IF hasPostgres THEN <<"PERN Stack">> ELSE <<>>)
            ELSE <<>>)

\* return stacks.slice(0, 4)
MaxStacks == 4

detectFullStacks(patterns, detectedTech) ==
    LET techArray == [i \in 1..Len(detectedTech) |-> ToLowerCase(detectedTech[i])]
        matched   == PatternStacks(patterns, techArray)
    IN  Slice(matched \o CompositeStacks(detectedTech, matched), 0, MaxStacks)

-----------------------------------------------------------------------------
(* deriveStackDepth.                                                       *)

\* recentCutoff.setMonth(recentCutoff.getMonth() - 12)
RecentCutoffMonths == 12

\* core seeded with techStack.primary.slice(0, 4)
CoreSeedSize == 4

\* frameworkUsage.get(framework): the number of repositories it is detected
\* in; perRepo lists the technologies detected in each repository.
FrameworkUsage(perRepo, framework) ==
    Count(perRepo, LAMBDA found : framework \in Range(found))

\* A faulty variant of CoreAfterUsage: core from 3 repositories on.
CoreAfterUsageThree(perRepo, core, used) ==
    SetAddAll(core, Filter(used, LAMBDA f : FrameworkUsage(perRepo, f) >= 3))

\* frameworkUsage.forEach: count >= 2 goes to core.
CoreAfterUsage(perRepo, core, used) ==
    SetAddAll(core, Filter(used, LAMBDA f : FrameworkUsage(perRepo, f) >= 2))

\* frameworkUsage.forEach: count < 2 goes to supporting.
SupportingAfterUsage(perRepo, used) ==
    Filter(used, LAMBDA f : FrameworkUsage(perRepo, f) < 2)


\* supportsIfAbsent for every element of values
SupportsIfAbsent(values, coreSet, supportingSet) ==
    SetAddAll(supportingSet, Filter(values, LAMBDA v : v \notin Range(coreSet)))

\* A faulty variant of SupportingReturned: Array.from(supporting) without the filter.
SupportingUnfiltered(coreSet, supportingSet) == supportingSet

\* Array.from(supporting).filter((item) => !core.has(item))
SupportingReturned(coreSet, supportingSet) ==
    Filter(supportingSet, LAMBDA item : item \notin Range(coreSet))

\* The languages the second repos.forEach adds to emerging.
EmergingLanguages(rs, cutoff, coreSet, supportingSet) ==
    LET recent == Filter(rs, LAMBDA repo :
                      /\ (repo.updated_at >= cutoff \/ repo.created_at >= cutoff)
                      /\ repo.language # Null /\ repo.language # "")
    IN  Filter([i \in 1..Len(recent) |-> recent[i].language],
               LAMBDA l : l \notin Range(coreSet) /\ l \notin Range(supportingSet))

deriveStackDepth(table, techStack, rs, clock) ==
    LET recentCutoff == MonthsBefore(clock, RecentCutoffMonths)
        perRepo == DetectPerText(table, SearchTexts(rs))
        used   == AddEach(perRepo, LAMBDA found : found)
        recentFrameworks ==
            AddEach(Indices(rs), LAMBDA i :
                IF rs[i].updated_at >= recentCutoff THEN perRepo[i] ELSE <<>>)
        core0  == SetAddAll(<<>>, Slice(techStack.primary, 0, CoreSeedSize))
        core   == CoreAfterUsage(perRepo, core0, used)
        supp1  == SupportingAfterUsage(perRepo, used)
        supp2  == SupportsIfAbsent(techStack.secondary, core, supp1)
        supp   == SupportsIfAbsent(techStack.tools, core, supp2)
        emerg1 == Filter(recentFrameworks,
                         LAMBDA f : f \notin Range(core) /\ f \notin Range(supp))
        emerg  == SetAddAll(emerg1, EmergingLanguages(rs, recentCutoff, core, supp))
    IN  [core       |-> core,
         supporting |-> SupportingReturned(core, supp),
         emerging   |-> emerg]

-----------------------------------------------------------------------------
(* Experience level.                                                       *)

\* Math.round(years * 10) / 10 with years = (now - created) / yearMs
calculateAccountAge(createdAt, clock) ==
    Frac(RoundDiv((clock - createdAt) * 10, yearMs), 10)

\* sixMonthsAgo.setMonth(sixMonthsAgo.getMonth() - 6)
ActiveMonths == 6

isRecentlyActive(updatedAt, clock) == updatedAt > MonthsBefore(clock, ActiveMonths)

\* The additive score of determineExperienceLevel.
ExperienceScore(accountAge, totalProjects, activeProjects, avgStars) ==
      (IF FracGeq(accountAge, 7) THEN 4
       ELSE IF FracGeq(accountAge, 5) THEN 3
       ELSE IF FracGeq(accountAge, 3) THEN 2
       ELSE IF FracGeq(accountAge, 1) THEN 1 ELSE 0)
    + (IF totalProjects >= 100 THEN 4
       ELSE IF totalProjects >= 50 THEN 3
       ELSE IF totalProjects >= 20 THEN 2
       ELSE IF totalProjects >= 10 THEN 1 ELSE 0)
    + (IF activeProjects >= 20 THEN 3
       ELSE IF activeProjects >= 10 THEN 2
       ELSE IF activeProjects >= 5 THEN 1 ELSE 0)
    + (IF FracGeq(avgStars, 100) THEN 4
       ELSE IF FracGeq(avgStars, 50) THEN 3
       ELSE IF FracGeq(avgStars, 20) THEN 2
       ELSE IF FracGeq(avgStars, 5) THEN 1 ELSE 0)

\* A faulty variant of LevelOfScore: the tiers of the comment above the if-chain.
LevelOfScoreAsCommented(score) ==
    IF score >= 9 THEN "Expert"
    ELSE IF score >= 6 THEN "Advanced"
    ELSE IF score >= 3 THEN "Intermediate"
    ELSE "Beginner"

\* The if-chain at the end of determineExperienceLevel.
LevelOfScore(score) ==
    IF score >= 12 THEN "Expert"
    ELSE IF score >= 9 THEN "Advanced"
    ELSE IF score >= 6 THEN "Intermediate"
    ELSE "Beginner"

determineExperienceLevel(accountAge, totalProjects, activeProjects, avgStars) ==
    LevelOfScore(ExperienceScore(accountAge, totalProjects, activeProjects, avgStars))

-----------------------------------------------------------------------------
(* analyzeSkills.                                                          *)

\* A faulty variant of techStackPrimary: the languages are kept as primary
\* whatever was detected.
techStackPrimaryLanguages(detectedStacks, primary) == primary

\* primary: detectedStacks.length > 0 ? detectedStacks : primary
techStackPrimary(detectedStacks, primary) ==
    IF Len(detectedStacks) > 0 THEN detectedStacks ELSE primary

analyzeSkills(table, patterns, usr, rs, clock) ==
    LET texts        == SearchTexts(rs)
        perRepo      == DetectPerText(table, texts)
        frameworks   == AddEach(perRepo, LAMBDA found : found)
        tools        == AddEach(texts, ToolsIn)
        detected0    == AddEach(Indices(rs), LAMBDA i :
                            DetectedTechIn(perRepo[i], texts[i]))
        topLanguages == TopLanguages(rs)
        detectedTech == SetAddAll(detected0, Languages(Slice(topLanguages, 0, 5)))
        detectedStacks == detectFullStacks(patterns, detectedTech)
        primary      == Languages(Slice(topLanguages, 0, 3))
        secondary    == Languages(Slice(topLanguages, 3, 6))
        techStack    == [primary    |-> techStackPrimary(detectedStacks, primary),
                         secondary  |-> secondary,
                         frameworks |-> frameworks,
                         tools      |-> tools]
        accountAge     == calculateAccountAge(usr.created_at, clock)
        totalProjects  == Len(rs)
        activeProjects == Count(rs, LAMBDA r : isRecentlyActive(r.updated_at, clock))
        avgStars       == Frac(SumSeq([i \in 1..Len(rs) |-> rs[i].stargazers_count]),
                               Len(rs))
    IN  [techStack       |-> techStack,
         topLanguages    |-> topLanguages,
         experienceLevel |-> determineExperienceLevel(accountAge, totalProjects,
                                                      activeProjects, avgStars),
         totalProjects   |-> totalProjects,
         activeProjects  |-> activeProjects,
         accountAge      |-> accountAge,
         stackDepth      |-> deriveStackDepth(table, techStack, rs, clock)]

-----------------------------------------------------------------------------
(* calculateActivityMetrics.                                               *)

\* Math.round((now - date) / dayMs)
diffDays(date, clock) == RoundDiv(clock - date, dayMs)

\* A faulty variant of ByUpdateDesc: the comparator reversed.
ByUpdateAsc(rs) == StableSort(rs, LAMBDA a, b : a.updated_at < b.updated_at)

\* [...repos].sort((a, b) => updated(b) - updated(a))
ByUpdateDesc(rs) == StableSort(rs, LAMBDA a, b : a.updated_at > b.updated_at)

Abs(x) == IF x < 0 THEN 0 - x ELSE x

\* The day gaps between consecutive repositories of the sorted list.
Intervals(sorted) ==
    [i \in 1..(Len(sorted) - 1) |->
        RoundDiv(Abs(sorted[i].updated_at - sorted[i + 1].updated_at), dayMs)]

\* A faulty variant of median: the lower middle value of an even count.
medianLowerMiddle(values) ==
    IF Len(values) = 0 THEN 0
    ELSE LET sorted == StableSort(values, LAMBDA a, b : a < b)
         IN  sorted[(Len(sorted) + 1) \div 2]

median(values) ==
    IF Len(values) = 0 THEN 0
    ELSE LET sorted == StableSort(values, LAMBDA a, b : a < b)
             mid    == Len(sorted) \div 2
         IN  IF Len(sorted) % 2 # 0 THEN sorted[mid + 1]
             ELSE RoundDiv(sorted[mid] + sorted[mid + 1], 2)

RECURSIVE MaxOf(_)
MaxOf(values) ==
    IF Len(values) = 1 THEN values[1]
    ELSE Max(Head(values), MaxOf(Tail(values)))

\* A faulty variant of QuietStreak: the gaps alone.
QuietStreakGapsOnly(intervals, first) ==
    IF Len(intervals) > 0 THEN MaxOf(intervals) ELSE first

\* intervals.length ? Math.max(...intervals, diffDays(sortedByUpdate[0])) :
\* diffDays(sortedByUpdate[0]), first being diffDays(sortedByUpdate[0]).
QuietStreak(intervals, first) ==
    IF Len(intervals) > 0 THEN MaxOf(intervals \o <<first>>) ELSE first

\* medianUpdateInterval of the empty-input record
DefaultMedianInterval == 90

\* Math.max(0, Math.min(30, Math.floor(streak / 30) * 8))
VelocityPenalty(longestQuietStreak) ==
    Max(0, Min(30, (longestQuietStreak \div 30) * 8))

\* A faulty variant of VelocityScore: the difference without the clamp.
VelocityScoreUnclamped(velocityBase, velocityPenalty) ==
    velocityBase - velocityPenalty

\* Math.max(5, Math.min(100, velocityBase - velocityPenalty))
VelocityScore(velocityBase, velocityPenalty) ==
    Max(5, Min(100, velocityBase - velocityPenalty))

calculateActivityMetrics(rs, clock) ==
    IF Len(rs) = 0
    THEN [recentPushes |-> 0, activeLast30Days |-> 0, activeLast90Days |-> 0,
          medianUpdateInterval |-> DefaultMedianInterval,
          longestQuietStreak |-> 0, velocityScore |-> 0]
    ELSE
    LET sortedByUpdate == ByUpdateDesc(rs)
        intervals == Intervals(sortedByUpdate)
        recentPushes ==
            Count(sortedByUpdate, LAMBDA r : diffDays(r.updated_at, clock) <= 14)
        activeLast30Days ==
            Count(sortedByUpdate, LAMBDA r : diffDays(r.updated_at, clock) <= 30)
        activeLast90Days ==
            Count(sortedByUpdate, LAMBDA r : diffDays(r.updated_at, clock) <= 90)
        first == diffDays(sortedByUpdate[1].updated_at, clock)
        medianUpdateInterval ==
            IF Len(intervals) > 0 THEN median(intervals) ELSE first
        longestQuietStreak == QuietStreak(intervals, first)
        velocityBase ==
            activeLast30Days * 12 + activeLast90Days * 6 + recentPushes * 16
    IN  [recentPushes |-> recentPushes,
         activeLast30Days |-> activeLast30Days,
         activeLast90Days |-> activeLast90Days,
         medianUpdateInterval |-> medianUpdateInterval,
         longestQuietStreak |-> longestQuietStreak,
         velocityScore |-> VelocityScore(velocityBase,
                                         VelocityPenalty(longestQuietStreak))]

-----------------------------------------------------------------------------
(* evaluateQualitySignals.                                                 *)

TestingKeys == <<"test", "spec", "jest", "pytest", "cypress", "vitest", "mocha", "unit">>

AutomationKeys == <<"github-actions", "workflow", "ci", "pipeline", "continuous",
                    "deployment", "travis", "circleci", "azure-pipelines", "gitlab-ci">>

DocumentationKeys == <<"docs", "documentation", "wiki", "guide", "handbook",
                       "storybook", "readme">>

\* repo.description && repo.description.length > 80 || keys.some(...)
DocumentationHit(repo, text) ==
    \/ (repo.description # Null /\ Len(repo.description) > 80)
    \/ KeywordHit(DocumentationKeys, text)

cadenceFromInterval(interval) ==
    IF interval <= 14 THEN "Weekly"
    ELSE IF interval <= 30 THEN "Biweekly"
    ELSE IF interval <= 60 THEN "Monthly"
    ELSE IF interval <= 120 THEN "Quarterly"
    ELSE "Ad-hoc"

\* A faulty variant of RatioGeq: the comparison made strict.
RatioGreater(hits, total, percent) == hits * 100 > percent * total

\* hits / total >= percent / 100
RatioGeq(hits, total, percent) == hits * 100 >= percent * total

evaluateQualitySignals(rs, activity) ==
    IF Len(rs) = 0
    THEN [testing |-> "Sparse", automation |-> "None", documentation |-> "Sparse",
          releaseCadence |-> "Ad-hoc",
          notes |-> <<"No public repositories available for analysis.">>]
    ELSE
    LET total == Len(rs)
        texts == SearchTexts(rs)
        testingHits == Count(texts, LAMBDA text : KeywordHit(TestingKeys, text))
        automationHits == Count(texts, LAMBDA text : KeywordHit(AutomationKeys, text))
        documentationHits ==
            Count(Indices(rs), LAMBDA i : DocumentationHit(rs[i], texts[i]))
        testing == IF RatioGeq(testingHits, total, 35) THEN "Strong"
                   ELSE IF RatioGeq(testingHits, total, 18) THEN "Moderate"
                   ELSE "Sparse"
        automation == IF RatioGeq(automationHits, total, 30) THEN "Advanced"
                      ELSE IF RatioGeq(automationHits, total, 15) THEN "Basic"
                      ELSE "None"
        documentation == IF RatioGeq(documentationHits, total, 45) THEN "Comprehensive"
                         ELSE IF RatioGeq(documentationHits, total, 20) THEN "Moderate"
                         ELSE "Sparse"
        notes ==
            (IF testing = "Sparse"
             THEN <<"Testing references are minimal across public repositories.">>
             ELSE <<>>)
            \o (IF automation = "None"
                THEN <<"No CI/CD or workflow keywords detected; consider adding automation.">>
                ELSE <<>>)
            \o (IF documentation = "Sparse"
                THEN <<"Documentation signals are limited; enrich READMEs and guides.">>
                ELSE <<>>)
            \o (IF activity.recentPushes >= 5
                THEN <<"Multiple repositories updated in the last two weeks.">>
                ELSE <<>>)
            \o (IF activity.velocityScore >= 70
                THEN <<"Development cadence is consistently high.">>
                ELSE <<>>)
    IN  [testing |-> testing, automation |-> automation,
         documentation |-> documentation,
         releaseCadence |-> cadenceFromInterval(activity.medianUpdateInterval),
         notes |-> notes]

-----------------------------------------------------------------------------
(* extractRepositoryHighlights.                                            *)

\* [...repos].sort((a, b) => b.stargazers_count - a.stargazers_count)
ByStarsDesc(rs) == StableSort(rs, LAMBDA a, b : a.stargazers_count > b.stargazers_count)

\* A faulty variant of addHighlight: the guard without seen.has(repo.name).
addHighlightUnguarded(st, repo, reason) ==
    IF repo = Undefined THEN st
    ELSE [highlights |->
              Append(st.highlights,
                     [name            |-> repo.name,
                      description     |-> repo.description,
                      stars           |-> repo.stargazers_count,
                      forks           |-> repo.forks_count,
                      primaryLanguage |-> repo.language,
                      lastUpdated     |-> repo.updated_at,
                      createdAt       |-> repo.created_at,
                      topics          |-> repo.topics,
                      url             |-> repo.html_url,
                      reason          |-> reason]),
          seen |-> SetAdd(st.seen, repo.name)]

\* The addHighlight closure; st is [highlights, seen].
addHighlight(st, repo, reason) ==
    IF repo = Undefined \/ repo.name \in Range(st.seen) THEN st
    ELSE [highlights |->
              Append(st.highlights,
                     [name            |-> repo.name,
                      description     |-> repo.description,
                      stars           |-> repo.stargazers_count,
                      forks           |-> repo.forks_count,
                      primaryLanguage |-> repo.language,
                      lastUpdated     |-> repo.updated_at,
                      createdAt       |-> repo.created_at,
                      topics          |-> repo.topics,
                      url             |-> repo.html_url,
                      reason          |-> reason]),
          seen |-> SetAdd(st.seen, repo.name)]

\* The repository matches one of the priority languages, case-insensitively.
StackAligned(repo, priorityLanguages) ==
    \E i \in 1..Len(priorityLanguages) :
        LET language == ToLowerCase(priorityLanguages[i])
            stats    == LanguageEntries(repo)
        IN  \/ ToLowerCase(IF repo.language = Null THEN "" ELSE repo.language)
                   = language
            \/ \E j \in 1..Len(stats) : ToLowerCase(stats[j].language) = language

\* Math.min(3, repos.length)
HighlightTarget(n) == Min(3, n)

\* The while loop filling with 'Popular' entries, entered with index.
RECURSIVE PopularFill(_, _, _, _)
PopularFill(st, byStars, index, n) ==
    IF Len(st.highlights) < HighlightTarget(n)
    THEN LET next == addHighlight(st, byStars[index + 1], "Popular")
         IN  IF index + 1 >= Len(byStars) THEN next
             ELSE PopularFill(next, byStars, index + 1, n)
    ELSE st

\* A faulty variant of RecentStandout: the stars are not looked at.
RecentStandoutNewest(byRecency) == byRecency[1]

\* byRecency.find((repo) => repo.stargazers_count >= 5) || byRecency[0]
RecentStandout(byRecency) ==
    LET found == FindFirst(byRecency, LAMBDA repo : repo.stargazers_count >= 5)
    IN  IF found # Undefined THEN found ELSE byRecency[1]

extractRepositoryHighlights(rs, priorityLanguages) ==
    IF Len(rs) = 0 THEN <<>>
    ELSE
    LET byStars   == ByStarsDesc(rs)
        byRecency == ByUpdateDesc(rs)
        st1 == addHighlight([highlights |-> <<>>, seen |-> <<>>],
                            byStars[1], "Top starred")
        st2 == addHighlight(st1, RecentStandout(byRecency), "Recent")
        stackAligned ==
            FindFirst(byStars, LAMBDA repo : StackAligned(repo, priorityLanguages))
        st3 == addHighlight(st2, stackAligned, "Core stack")
    IN  PopularFill(st3, byStars, 0, Len(rs)).highlights

-----------------------------------------------------------------------------
(* identifyOpportunities.                                                  *)

\* Array.from(new Set(values))
dedupe(values) == SetAddAll(<<>>, values)

\* A faulty variant of SkillSatisfied: literal membership only.
SkillSatisfiedLiterally(skill, primary, frameworks, tools) ==
    \/ skill \in Range(primary)
    \/ skill \in Range(frameworks)
    \/ skill \in Range(tools)

SkillSatisfied(skill, primary, frameworks, tools) ==
    \/ skill \in Range(primary)
    \/ skill \in Range(frameworks)
    \/ skill \in Range(tools)
    \/ \E i \in 1..Len(primary) :
           Includes(ToLowerCase(skill), ToLowerCase(primary[i]))

RECURSIVE JobRoles(_, _, _, _)
JobRoles(mapping, primary, frameworks, tools) ==
    IF mapping = <<>> THEN <<>>
    ELSE (IF Len(Filter(Head(mapping).skills,
                        LAMBDA skill : SkillSatisfied(skill, primary, frameworks, tools)))
                >= 2
          THEN <<Head(mapping).role>> ELSE <<>>)
         \o JobRoles(Tail(mapping), primary, frameworks, tools)

\* values.some((v) => wanted.includes(v))
SomeIn(values, wanted) == \E i \in 1..Len(values) : values[i] \in wanted

Industries(primary, frameworks, tools) ==
    (IF SomeIn(frameworks, {"React", "Angular", "Vue"})
     THEN <<"Web Development", "SaaS">> ELSE <<>>)
    \o (IF SomeIn(frameworks, {"TensorFlow", "PyTorch"})
        THEN <<"AI/ML", "Data Science">> ELSE <<>>)
    \o (IF SomeIn(tools, {"Docker", "Kubernetes", "AWS", "Azure", "GCP"})
        THEN <<"Cloud Computing", "DevOps">> ELSE <<>>)
    \o (IF SomeIn(primary, {"Swift", "Kotlin", "Dart"})
        THEN <<"Mobile Apps">> ELSE <<>>)
    \o (IF SomeIn(frameworks, {"Django", "Flask", "Express", "Spring"})
        THEN <<"Backend Services", "API Development">> ELSE <<>>)

Recommendations(experienceLevel) ==
    IF experienceLevel = "Beginner"
    THEN <<"Expand project variety to demonstrate breadth and foundational skills.",
           "Join collaborative open-source repositories to grow teamwork experience.">>
    ELSE IF experienceLevel = "Intermediate"
    THEN <<"Deepen expertise in flagship stack components through advanced builds.",
           "Take on architectural responsibilities in collaborative projects.">>
    ELSE <<"Share expertise via mentorship, talks, or open-source leadership.",
           "Lean into architecture and scaling concerns across flagship repos.">>

NextActions(skillAnalysis, quality, activity) ==
    (IF skillAnalysis.experienceLevel = "Beginner"
     THEN <<"Ship a small production-ready project end-to-end this month.">>
     ELSE IF skillAnalysis.experienceLevel = "Intermediate"
     THEN <<"Document design decisions and publish a technical case study.">>
     ELSE <<"Formalize long-term roadmap for your most active repositories.">>)
    \o (IF skillAnalysis.activeProjects < 3
        THEN <<"Increase public project cadence to highlight ongoing maintenance.">>
        ELSE <<>>)
    \o (IF quality.testing = "Sparse"
        THEN <<"Introduce automated test coverage on highlighted repositories.">>
        ELSE <<>>)
    \o (IF quality.automation = "None"
        THEN <<"Set up a CI/CD workflow (GitHub Actions, CircleCI, or similar).">>
        ELSE <<>>)
    \o (IF quality.documentation = "Sparse"
        THEN <<"Upgrade README and docs with architecture notes and usage guides.">>
        ELSE <<>>)
    \o (IF activity.velocityScore < 40
        THEN <<"Plan bi-weekly release checkpoints to increase visible momentum.">>
        ELSE <<>>)

identifyOpportunities(mapping, skillAnalysis, quality, activity) ==
    LET primary    == skillAnalysis.techStack.primary
        frameworks == skillAnalysis.techStack.frameworks
        tools      == skillAnalysis.techStack.tools
    IN  [jobRoles        |-> dedupe(SetAddAll(<<>>,
                                 JobRoles(mapping, primary, frameworks, tools))),
         industries      |-> dedupe(SetAddAll(<<>>,
                                 Industries(primary, frameworks, tools))),
         recommendations |-> dedupe(Recommendations(skillAnalysis.experienceLevel)),
         nextActions     |-> dedupe(NextActions(skillAnalysis, quality, activity))]

-----------------------------------------------------------------------------
(* predictFuture.                                                          *)

\* The first if / else-if on velocity and automation.
InitialDemand(quality, activity) ==
    IF activity.velocityScore >= 70 \/ quality.automation = "Advanced"
    THEN "Very High"
    ELSE IF activity.velocityScore >= 50 THEN "High" ELSE "Medium"

JsTrigger(primary) == "JavaScript" \in Range(primary) \/ "TypeScript" \in Range(primary)

PythonTrigger(primary) == "Python" \in Range(primary)

ContainerTrigger(tools) == "Docker" \in Range(tools) \/ "Kubernetes" \in Range(tools)

FrontendTrigger(frameworks) == SomeIn(frameworks, {"React", "Vue", "Angular"})

\* A faulty variant of PythonDemand: High whatever the value was.
PythonDemandHigh(marketDemand) == "High"

\* marketDemand === 'Very High' ? 'Very High' : 'High'
PythonDemand(marketDemand) ==
    IF marketDemand = "Very High" THEN "Very High" ELSE "High"

\* marketDemand after the initial rule and after the Python, container and
\* frontend rules, in source order (the JavaScript rule leaves it alone).
DemandSteps(skillAnalysis, quality, activity) ==
    LET d0 == InitialDemand(quality, activity)
        d1 == IF PythonTrigger(skillAnalysis.techStack.primary)
              THEN PythonDemand(d0) ELSE d0
        d2 == IF ContainerTrigger(skillAnalysis.techStack.tools)
              THEN "Very High" ELSE d1
        d3 == IF FrontendTrigger(skillAnalysis.techStack.frameworks)
                 /\ d2 # "Very High"
              THEN "High" ELSE d2
    IN  <<d0, d1, d2, d3>>

\* marketDemand as returned.
MarketDemand(skillAnalysis, quality, activity) ==
    DemandSteps(skillAnalysis, quality, activity)[4]

\* A faulty variant of GrowthAreas: the universal entries are pushed whatever
\* the rules pushed.
GrowthAreasAlwaysUniversal(primary, frameworks, tools) ==
    (IF JsTrigger(primary) \/ PythonTrigger(primary)
     THEN <<"AI and Machine Learning", "Progressive Web Apps">> ELSE <<>>)
    \o <<"Cloud Computing", "DevOps", "Automation">>

GrowthAreas(primary, frameworks, tools) ==
    LET pushed ==
            (IF JsTrigger(primary)
             THEN <<"Web3 and Blockchain Development", "Progressive Web Apps">>
             ELSE <<>>)
            \o (IF PythonTrigger(primary)
                THEN <<"AI and Machine Learning", "Data Engineering">> ELSE <<>>)
            \o (IF ContainerTrigger(tools)
                THEN <<"Cloud Native Development", "Platform Engineering">>
                ELSE <<>>)
            \o (IF FrontendTrigger(frameworks)
                THEN <<"Frontend Architecture">> ELSE <<>>)
    IN  IF Len(pushed) = 0 THEN <<"Cloud Computing", "DevOps", "Automation">>
        ELSE pushed

SkillsToLearn(primary, frameworks, tools) ==
    LET pushed ==
            (IF JsTrigger(primary)
             THEN <<"WebAssembly", "GraphQL", "TypeScript (if not already)">>
             ELSE <<>>)
            \o (IF PythonTrigger(primary)
                THEN <<"TensorFlow/PyTorch", "Apache Spark", "MLOps">> ELSE <<>>)
            \o (IF ContainerTrigger(tools)
                THEN <<"Service Mesh (Istio)", "GitOps (ArgoCD)", "eBPF">>
                ELSE <<>>)
            \o (IF FrontendTrigger(frameworks)
                THEN <<"Micro-frontends", "Server Components", "Edge Computing">>
                ELSE <<>>)
    IN  IF "System Design" \notin Range(pushed)
        THEN pushed \o <<"System Design", "Cloud Architecture",
                         "Security Best Practices">>
        ELSE pushed

CareerPath(experienceLevel) ==
    IF experienceLevel = "Beginner"
    THEN <<"Junior Developer (0-2 years)", "Mid-level Developer (2-4 years)",
           "Senior Developer (4-7 years)">>
    ELSE IF experienceLevel = "Intermediate"
    THEN <<"Senior Developer (current)", "Tech Lead / Staff Engineer (2-3 years)",
           "Principal Engineer / Architect (5+ years)">>
    ELSE <<"Tech Lead / Staff Engineer (current)", "Principal Engineer (2-3 years)",
           "Distinguished Engineer / CTO (5+ years)">>

predictFuture(skillAnalysis, quality, activity) ==
    LET primary    == skillAnalysis.techStack.primary
        frameworks == skillAnalysis.techStack.frameworks
        tools      == skillAnalysis.techStack.tools
    IN  [growthAreas   |-> dedupe(GrowthAreas(primary, frameworks, tools)),
         skillsToLearn |-> dedupe(SkillsToLearn(primary, frameworks, tools)),
         careerPath    |-> CareerPath(skillAnalysis.experienceLevel),
         marketDemand  |-> MarketDemand(skillAnalysis, quality, activity)]

-----------------------------------------------------------------------------
(* buildTimeline.                                                          *)

\* The separator written U+2022 in the source's template strings.
Bullet == "*"

timeSince(date, clock) ==
    LET days   == RoundDiv(clock - date, dayMs)
        weeks  == RoundDiv(days, 7)
        months == RoundDiv(days, 30)
        years  == RoundDiv(days, 365)
    IN  IF days <= 1 THEN "1 day"
        ELSE IF days < 7 THEN ToString(days) \o " days"
        ELSE IF weeks < 5 THEN ToString(weeks) \o " wks"
        ELSE IF months < 12 THEN ToString(months) \o " mo"
        ELSE ToString(years) \o " yr" \o (IF years > 1 THEN "s" ELSE "")

\* A faulty variant of ByCreationAsc: the comparator reversed.
ByCreationDesc(rs) == StableSort(rs, LAMBDA a, b : a.created_at > b.created_at)

\* [...repos].sort((a, b) => created(a) - created(b))
ByCreationAsc(rs) == StableSort(rs, LAMBDA a, b : a.created_at < b.created_at)

\* The repository a language's adoption event is dated by, or undefined.
AdoptionMatch(byCreation, language) ==
    FindFirst(byCreation, LAMBDA repo :
        \/ ToLowerCase(IF repo.language = Null THEN "" ELSE repo.language)
               = ToLowerCase(language)
        \/ \E j \in 1..Len(LanguageEntries(repo)) :
               ToLowerCase(LanguageEntries(repo)[j].language) = ToLowerCase(language))

RECURSIVE AdoptionEvents(_, _)
AdoptionEvents(byCreation, languages) ==
    IF languages = <<>> THEN <<>>
    ELSE LET match == AdoptionMatch(byCreation, Head(languages))
         IN  (IF match # Undefined
              THEN <<[year        |-> GetFullYear(match.created_at),
                      title       |-> Head(languages) \o " adoption",
                      description |-> match.name \o " introduced "
                                      \o Head(languages) \o " into the portfolio"]>>
              ELSE <<>>)
             \o AdoptionEvents(byCreation, Tail(languages))

\* The events pushed before the final sort, in push order.
GeneratedEvents(usr, rs, skillAnalysis, clock) ==
    LET joined == [year        |-> GetFullYear(usr.created_at),
                   title       |-> "Joined GitHub",
                   description |-> "Account created " \o Bullet \o " "
                                   \o ToString(skillAnalysis.totalProjects)
                                   \o " public repositories analysed"]
    IN  IF Len(rs) = 0 THEN <<joined>>
        ELSE
        LET byCreation == ByCreationAsc(rs)
            firstRepo  == byCreation[1]
            latestRepo == ByUpdateDesc(rs)[1]
        IN  <<joined,
              [year        |-> GetFullYear(firstRepo.created_at),
               title       |-> "First repository " \o Bullet \o " " \o firstRepo.name,
               description |-> IF firstRepo.description = Null
                                  \/ firstRepo.description = ""
                               THEN "Initial project committed to GitHub"
                               ELSE firstRepo.description]>>
            \o AdoptionEvents(byCreation,
                              Languages(Slice(skillAnalysis.topLanguages, 0, 3)))
            \o <<[year        |-> GetFullYear(latestRepo.updated_at),
                  title       |-> "Latest launch",
                  description |-> latestRepo.name \o " updated "
                                  \o timeSince(latestRepo.updated_at, clock)
                                  \o " ago"]>>

\* `${event.year}-${event.title}`
EventKey(event) == ToString(event.year) \o "-" \o event.title

\* A faulty variant of ByYearAsc: the comparator reversed (b.year - a.year).
ByYearDesc(events) == StableSort(events, LAMBDA a, b : a.year > b.year)

\* events.sort((a, b) => a.year - b.year)
ByYearAsc(events) == StableSort(events, LAMBDA a, b : a.year < b.year)

\* The reduce that keeps an event unless its key is already in acc.
RECURSIVE DedupeEvents(_, _)
DedupeEvents(acc, events) ==
    IF events = <<>> THEN acc
    ELSE DedupeEvents(
             IF \E i \in 1..Len(acc) : EventKey(acc[i]) = EventKey(Head(events))
             THEN acc ELSE Append(acc, Head(events)),
             Tail(events))

buildTimeline(usr, rs, skillAnalysis, clock) ==
    IF Len(rs) = 0 THEN GeneratedEvents(usr, rs, skillAnalysis, clock)
    ELSE DedupeEvents(<<>>, ByYearAsc(GeneratedEvents(usr, rs, skillAnalysis, clock)))

-----------------------------------------------------------------------------
(* analyzeRepositories.                                                    *)

analyzeRepositories(table, patterns, mapping, usr, rs, contrib, clock) ==
    LET skillAnalysis == analyzeSkills(table, patterns, usr, rs, clock)
        highlights    == extractRepositoryHighlights(
                             rs, Languages(skillAnalysis.topLanguages))
        activity      == calculateActivityMetrics(rs, clock)
        quality       == evaluateQualitySignals(rs, activity)
    IN  [user             |-> usr,
         skillAnalysis    |-> skillAnalysis,
         opportunities    |-> identifyOpportunities(mapping, skillAnalysis,
                                                    quality, activity),
         futurePrediction |-> predictFuture(skillAnalysis, quality, activity),
         highlights       |-> highlights,
         activity         |-> activity,
         quality          |-> quality,
         timeline         |-> buildTimeline(usr, rs, skillAnalysis, clock),
         contributions    |-> contrib]

-----------------------------------------------------------------------------
(* Inputs.                                                                 *)

Days(n) == n * dayMs

Years(n) == n * yearMs

\* The instant of the analysis.
Clock == Years(10) + Days(100)

Entry(language, bytes) == [language |-> language, bytes |-> bytes]

Repo(name, description, topics, language, stars, updated, created, stats) ==
    [name |-> name, description |-> description, topics |-> topics,
     language |-> language, stargazers_count |-> stars, forks_count |-> 0,
     updated_at |-> updated, created_at |-> created,
     html_url |-> "https://github.com/u/" \o name,
     languageStats |-> stats]

\* The repositories the lists of Spec are drawn from: two share a name, two
\* tie on stars, one is updated after Clock, one has no language map, one
\* names a primary language its (empty) language map lacks, and one has a name
\* and a language whose timeline titles coincide.
RepoPool == {
    Repo("web", "React dashboard", <<"react", "vite">>, "JavaScript", 60,
         Clock - Days(3), Years(8),
         [entries |-> <<Entry("JavaScript", 700), Entry("CSS", 300)>>]),
    Repo("api", Null, <<"django">>, "Python", 5,
         Clock - Days(100), Years(6) + Days(30),
         [entries |-> <<Entry("Python", 1000)>>]),
    Repo("web", "", <<>>, "TypeScript", 0,
         Clock - Days(400), Years(9),
         [entries |-> <<Entry("TypeScript", 500), Entry("JavaScript", 500)>>]),
    Repo("infra", "Docker k8s ci docs", <<>>, Null, 4,
         Clock + Days(1), Clock - Days(20),
         Undefined),
    Repo("ml-tests", "PyTorch", <<"mongo">>, "Go", 60,
         Clock - Days(20) + 12, Clock - Days(200),
         [entries |-> <<>>]),
    Repo("shop adoption", "Django shop", <<"postgres", "express">>, "Python", 12,
         Clock - Days(10), Years(6) + Days(10),
         [entries |-> <<Entry("Python", 800),
                        Entry("First repository " \o Bullet \o " shop", 200)>>]) }

\* The longest repository list of Spec.
MaxRepos == 3

RECURSIVE SeqsUpTo(_, _)
SeqsUpTo(S, n) ==
    IF n = 0 THEN {<<>>}
    ELSE LET shorter == SeqsUpTo(S, n - 1)
         IN  shorter \cup {Append(s, x) : s \in {t \in shorter : Len(t) = n - 1},
                                          x \in S}

Users == {[login |-> "u", created_at |-> Years(2) + Days(200)],
          [login |-> "u", created_at |-> Years(9) + Days(300)]}

SomeContributions ==
    [totalPRs |-> 1, mergedPRs |-> 1, openPRs |-> 0, totalIssues |-> 0,
     closedIssues |-> 0,
     recentPRs |-> <<[repo |-> "web", title |-> "Fix", state |-> "merged",
                      url |-> "https://github.com/u/web/pull/1",
                      createdAt |-> Clock - Days(2)]>>]

-----------------------------------------------------------------------------
(* The state machine.                                                      *)

LexiconInit ==
    /\ frameworkKeywords = FrameworkKeywordsTable
    /\ stackPatterns = StackPatternsTable
    /\ techStackMapping = TechStackMappingTable

NoLevelCall == levelArgs = Undefined /\ levelResult = Null

NoStacksCall == stacksArgs = <<>> /\ stacksResult = Undefined

\* The static fields of GitHubService as initialised, and no fetchAPI call.
ServiceIdle ==
    /\ token = FALSE /\ nowMs = 0 /\ callUrls = <<>> /\ calls = <<>>
    /\ microtasks = <<>> /\ inflightRequests = <<>> /\ activeRequests = 0
    /\ lastRequestTime = 0 /\ anonWindowStart = 0 /\ anonRequestCount = 0

\* The null of useState<AnalysisResult | null>.
NoResult == [null |-> TRUE]

\* useState(true), useState(null) (four times) and useState(0) of the Analysis
\* page (Analysis.tsx lines 32-37).
MountedPage ==
    [loading |-> TRUE, error |-> Null, result |-> NoResult, comparison |-> NoResult,
     compareError |-> Null, progress |-> 0]

\* The Analysis page before its effect has run.
PageIdle ==
    /\ route = [username |-> "", compare |-> ""]
    /\ page = MountedPage
    /\ runs = <<>>
    /\ timers = <<>>

NoEngineCall ==
    /\ user = Undefined /\ repos = <<>> /\ contributions = Undefined
    /\ now = Clock /\ pc = "idle" /\ result = Undefined

Init ==
    /\ LexiconInit
    /\ PageIdle
    /\ user \in Users
    /\ repos \in SeqsUpTo(RepoPool, MaxRepos)
    /\ contributions = (IF Len(repos) = 0 THEN Undefined ELSE SomeContributions)
    /\ now = Clock
    /\ pc = "call"
    /\ result = Undefined
    /\ NoLevelCall
    /\ ServiceIdle
    /\ NoStacksCall

\* A faulty variant of ReposAfterCall: repos.sort(...) on the argument itself, as left by
\* the last sort of the call (buildTimeline's sort by update time).
ReposSortedInPlace(rs) == ByUpdateDesc(rs)

\* The repository array after the call: every sort in the engine is applied to
\* a spread copy ([...repos].sort), so the caller's array keeps its order.
ReposAfterCall(rs) == rs

\* One synchronous call of analyzeRepositories(user, repos, contributions).
AnalyzeRepositories ==
    /\ pc = "call"
    /\ result' = analyzeRepositories(frameworkKeywords, stackPatterns,
                                     techStackMapping, user, repos,
                                     contributions, now)
    /\ repos' = ReposAfterCall(repos)
    /\ pc' = "done"
    /\ UNCHANGED <<frameworkKeywords, stackPatterns, techStackMapping, user,
                   contributions, now, levelArgs, levelResult, stacksArgs,
                   stacksResult, serviceVars, pageVars>>

Next == AnalyzeRepositories

Spec == Init /\ [][Next]_vars

-----------------------------------------------------------------------------
(* SpecLanguages: repository lists that differ in their language maps.     *)

LanguageNames == <<"Python", "JavaScript", "TypeScript", "HTML", "CSS", "Go",
                   "Rust", "Java", "C", "Ruby", "Shell", "PHP", "Kotlin", "Swift">>

\* The most languages in one repository's language map.
MaxLanguages == 11

ByteProfiles == {"equal", "ascending", "descending"}

ProfileBytes(profile, i, n) ==
    IF profile = "equal" THEN 100
    ELSE IF profile = "ascending" THEN 10 * i
    ELSE 10 * (n + 1 - i)

\* A repository whose language map holds the first n language names.
Polyglot(n, profile) ==
    Repo("polyglot", Null, <<>>, IF n = 0 THEN Null ELSE LanguageNames[1], 1,
         Clock - Days(5), Years(5),
         [entries |-> [i \in 1..n |->
                          Entry(LanguageNames[i], ProfileBytes(profile, i, n))]])

\* A second repository sharing one language with Polyglot and adding one.
Extra ==
    Repo("extra", Null, <<>>, "Zig", 2, Clock - Days(50), Years(7),
         [entries |-> <<Entry("Python", 50), Entry("Zig", 25)>>])

LanguageInputs ==
    {<<>>}
    \cup {<<Polyglot(n, p)>> : n \in 0..MaxLanguages, p \in ByteProfiles}
    \cup {<<Polyglot(n, p), Extra>> : n \in 0..MaxLanguages, p \in ByteProfiles}

InitLanguages ==
    /\ LexiconInit
    /\ PageIdle
    /\ user \in Users
    /\ repos \in LanguageInputs
    /\ contributions = Undefined
    /\ now = Clock
    /\ pc = "call"
    /\ result = Undefined
    /\ NoLevelCall
    /\ ServiceIdle
    /\ NoStacksCall

SpecLanguages == InitLanguages /\ [][Next]_vars

-----------------------------------------------------------------------------
(* SpecScenario: repositories written 100% in Python, exactly one of which  *)
(* has the topic "django".                                                 *)

\* The number of repositories of the scenario.
ScenarioRepos == 5

ScenarioNames == <<"alpha", "beta", "gamma", "delta", "omega", "sigma", "kappa">>

ScenarioRepo(i, djangoAt, djangoStars, djangoBytes, djangoUpdated) ==
    IF i = djangoAt
    THEN Repo(ScenarioNames[i], Null, <<"django">>, "Python", djangoStars,
              djangoUpdated, Years(7) + Days(i),
              [entries |-> <<Entry("Python", djangoBytes)>>])
    ELSE Repo(ScenarioNames[i], Null, <<>>, "Python", 0,
              Clock - Days(200 + i), Years(7) + Days(i),
              [entries |-> <<Entry("Python", 100 * i)>>])

ScenarioInputs ==
    {[i \in 1..ScenarioRepos |-> ScenarioRepo(i, at, stars, bytes, updated)] :
        at \in 1..ScenarioRepos, stars \in {0, 60}, bytes \in {1, 1000},
        updated \in {Clock - Days(7), Clock - Days(500)}}

InitScenario ==
    /\ LexiconInit
    /\ PageIdle
    /\ user \in Users
    /\ repos \in ScenarioInputs
    /\ contributions = Undefined
    /\ now = Clock
    /\ pc = "call"
    /\ result = Undefined
    /\ NoLevelCall
    /\ ServiceIdle
    /\ NoStacksCall

SpecScenario == InitScenario /\ [][Next]_vars

-----------------------------------------------------------------------------
(* SpecLevel: determineExperienceLevel on arguments around every band edge. *)

AgeTenths == {0, 9, 10, 29, 30, 49, 50, 69, 70, 125}

ProjectCounts == {0, 1, 9, 10, 19, 20, 49, 50, 99, 100}

ActiveCounts == {0, 4, 5, 9, 10, 19, 20}

\* Mean star counts as star totals over the project count.
StarTotals(n) ==
    IF n = 0 THEN {0}
    ELSE {0, 5 * n - 1, 5 * n, 20 * n - 1, 20 * n, 50 * n - 1, 50 * n,
          100 * n - 1, 100 * n}

\* At most totalProjects repositories are active; the mean is over all of them.
LevelInputsFor(n) ==
    {[accountAge |-> Frac(a, 10), totalProjects |-> n, activeProjects |-> k,
      avgStars |-> Frac(t, n)] :
        a \in AgeTenths, k \in {c \in ActiveCounts : c <= n}, t \in StarTotals(n)}

LevelInputs == UNION {LevelInputsFor(n) : n \in ProjectCounts}

InitLevel ==
    /\ LexiconInit
    /\ PageIdle
    /\ NoEngineCall
    /\ ServiceIdle
    /\ NoStacksCall
    /\ levelArgs \in LevelInputs
    /\ levelResult = Null

\* One call of determineExperienceLevel.
DetermineExperienceLevel ==
    /\ levelArgs # Undefined
    /\ levelResult = Null
    /\ levelResult' = determineExperienceLevel(
                          levelArgs.accountAge, levelArgs.totalProjects,
                          levelArgs.activeProjects, levelArgs.avgStars)
    /\ UNCHANGED <<frameworkKeywords, stackPatterns, techStackMapping, user,
                   repos, contributions, now, pc, result, levelArgs,
                   stacksArgs, stacksResult, serviceVars, pageVars>>

NextLevel == DetermineExperienceLevel

SpecLevel == InitLevel /\ [][NextLevel]_vars

-----------------------------------------------------------------------------
(* calculateActivityMetrics over repositories that differ in their update  *)
(* time only.                                                              *)

\* Update times: whole days before the clock, a time 10 days and 13 hours
\* before it (11 days when rounded), and one after it.
UpdateTimes ==
    {Clock - Days(10), Clock - Days(100), Clock - Days(10) - 13,
     Clock - Days(45), Clock - Days(400), Clock + Days(1)}

\* The longest repository list of SpecActivity.
MaxActivityRepos == 4

PlainRepo(updated) ==
    Repo("plain", Null, <<>>, Null, 0, updated, Years(1), Undefined)

ActivityInputs ==
    {[i \in 1..Len(times) |-> PlainRepo(times[i])] :
        times \in SeqsUpTo(UpdateTimes, MaxActivityRepos)}

InitActivity ==
    /\ LexiconInit
    /\ PageIdle
    /\ user = [login |-> "u", created_at |-> Years(2) + Days(200)]
    /\ repos \in ActivityInputs
    /\ contributions = Undefined
    /\ now = Clock
    /\ pc = "call"
    /\ result = Undefined
    /\ NoLevelCall
    /\ ServiceIdle
    /\ NoStacksCall

SpecActivity == InitActivity /\ [][Next]_vars

-----------------------------------------------------------------------------
(* GitHubService: fetchAPI, performFetch, waitForTurn and                  *)
(* enforceAnonymousLimit on the JavaScript event loop.  A step is the      *)
(* synchronous run of one job: the body of a call up to its first          *)
(* suspension, a queued continuation (microtask), a timer or a network     *)
(* response.  Timers and responses run only when no continuation is queued. *)

REQUEST_DEBOUNCE_MS == 100

ANON_WINDOW_MS == 60000

ANON_LIMIT == 25

MAX_CONCURRENT == 6

\* setTimeout(resolve, 50) of the slot loop
SlotPollMs == 50

\* A call that has not been made yet.
IdleCall == [pc |-> "idle", awaits |-> 0, outcome |-> Null, wakeAt |-> 0]

\* A faulty variant of Has: the map is never consulted.
HasNothing(inflight, url) == FALSE

\* inflightRequests.has(url) and inflightRequests.get(url); a request is named
\* by the call that created it.
Has(inflight, url) == \E i \in 1..Len(inflight) : inflight[i].url = url

Get(inflight, url) ==
    inflight[CHOOSE i \in 1..Len(inflight) : inflight[i].url = url].request

\* inflightRequests.delete(url)
Delete(inflight, url) == SelectSeq(inflight, LAMBDA e : e.url # url)

\* A faulty variant of enforceAnonymousLimit: the window ends at 60 s sharp.
enforceAnonymousLimitSharp(tok, t, windowStart, count) ==
    IF tok
    THEN [anonWindowStart |-> windowStart, anonRequestCount |-> count,
          thrown |-> FALSE]
    ELSE LET expired == t - windowStart >= ANON_WINDOW_MS
             counted == (IF expired THEN 0 ELSE count) + 1
         IN  [anonWindowStart |-> IF expired THEN t ELSE windowStart,
              anonRequestCount |-> counted,
              thrown |-> counted > ANON_LIMIT]

\* enforceAnonymousLimit(token) at time t: the window start and the counter it
\* leaves, and whether it threw.
enforceAnonymousLimit(tok, t, windowStart, count) ==
    IF tok
    THEN [anonWindowStart |-> windowStart, anonRequestCount |-> count,
          thrown |-> FALSE]
    ELSE LET expired == t - windowStart > ANON_WINDOW_MS
             counted == (IF expired THEN 0 ELSE count) + 1
         IN  [anonWindowStart |-> IF expired THEN t ELSE windowStart,
              anonRequestCount |-> counted,
              thrown |-> counted > ANON_LIMIT]

\* waitForTurn(hasToken) from the head of its while loop, at time t, up to its
\* next suspension or its return: the position it leaves the call in, the timer
\* it set and lastRequestTime.
waitForTurn(hasToken, t, active, last) ==
    IF active >= MAX_CONCURRENT
    THEN [pc |-> "waitSlot", wakeAt |-> t + SlotPollMs, lastRequestTime |-> last]
    ELSE IF ~hasToken /\ t - last < REQUEST_DEBOUNCE_MS
    THEN [pc |-> "debounce",
          wakeAt |-> t + (REQUEST_DEBOUNCE_MS - (t - last)),
          lastRequestTime |-> last]
    ELSE [pc |-> "granted", wakeAt |-> 0,
          lastRequestTime |-> IF hasToken THEN last ELSE t]

\* The continuation of call c is queued when its awaited promise is settled.
Queue(tasks, c, queued) == IF queued THEN Append(tasks, c) ELSE tasks

\* What the server answers for a url: "ok", a status that is not ok, or
\* "network" when fetch itself rejects.
ServerAnswer(url) ==
    CASE url = "/users/u/events?per_page=30" -> "403"
      [] url = "/users/x/events?per_page=30" -> "network"
      [] url = "/repos/u/r3/languages"       -> "500"
      [] url = "/repos/u/r5/languages"       -> "network"
      [] url = "/repos/v/r2/languages"       -> "500"
      [] url = "/repos/w/r3/languages"       -> "500"
      [] url = "/repos/w/r5/languages"       -> "network"
      [] OTHER                               -> "ok"

\* The outcome of performFetch for an answer.
FetchOutcome(answer) ==
    CASE answer = "ok"      -> "resolved"
      [] answer = "403"     -> "GitHub API rate limit exceeded"
      [] answer = "network" -> "fetch failed"
      [] OTHER              -> "GitHub API error"

AnonymousLimitError == "Too many GitHub requests without a personal token"

\* Date.now() when the first call is made: later than one window after 0.
StartMs == 2 * ANON_WINDOW_MS

\* The clock advances in steps of TickMs, MaxTicks times at most.
TickMs == 50

MaxTicks == 2

\* The longest list of calls over DedupeUrls.
MaxCalls == 3

DedupeUrls == {"/users/u", "/users/u/events?per_page=30"}

LanguagesUrl(i) == "/repos/u/r" \o ToString(i) \o "/languages"

\* One call more than MAX_CONCURRENT, each for another repository.
Burst == [i \in 1..(MAX_CONCURRENT + 1) |-> LanguagesUrl(i)]

FetchInputs == (SeqsUpTo(DedupeUrls, MaxCalls) \ {<<>>}) \cup {Burst}

\* The anonymous window when the first call is made: the initial values of the
\* static fields (lines 33-34), or a window opened ANON_WINDOW_MS ago in which
\* all requests but one of ANON_LIMIT have been made and have settled.
FreshWindow == [anonWindowStart |-> 0, anonRequestCount |-> 0]

UsedWindow ==
    [anonWindowStart |-> StartMs - ANON_WINDOW_MS,
     anonRequestCount |-> ANON_LIMIT - 1]

InitFetch ==
    /\ LexiconInit
    /\ PageIdle
    /\ NoEngineCall
    /\ NoLevelCall
    /\ NoStacksCall
    /\ token \in BOOLEAN
    /\ nowMs = StartMs
    /\ callUrls \in FetchInputs
    /\ calls = [c \in 1..Len(callUrls) |-> IdleCall]
    /\ microtasks = <<>>
    /\ inflightRequests = <<>>
    /\ activeRequests = 0
    /\ \E window \in (IF token THEN {FreshWindow} ELSE {FreshWindow, UsedWindow}) :
           /\ lastRequestTime = window.anonWindowStart
           /\ anonWindowStart = window.anonWindowStart
           /\ anonRequestCount = window.anonRequestCount

\* The fields a fetchAPI call reads and writes in its synchronous part.
ServiceState ==
    [calls |-> calls, microtasks |-> microtasks,
     inflightRequests |-> inflightRequests, lastRequestTime |-> lastRequestTime,
     anonWindowStart |-> anonWindowStart, anonRequestCount |-> anonRequestCount]

\* fetchAPI(url) of call c up to its first suspension (lines 39-47), with the
\* synchronous part of performFetch (lines 54-64) when it starts a request:
\* the fields it leaves, from the fields s.
fetchAPI(s, c) ==
    IF Has(s.inflightRequests, callUrls[c])
    THEN [s EXCEPT !.calls[c] =
                       [pc |-> "joined",
                        awaits |-> Get(s.inflightRequests, callUrls[c]),
                        outcome |-> Null, wakeAt |-> 0]]
    ELSE LET limit == enforceAnonymousLimit(token, nowMs, s.anonWindowStart,
                                            s.anonRequestCount)
             turn  == waitForTurn(token, nowMs, activeRequests,
                                  s.lastRequestTime)
             inflight == Append(s.inflightRequests,
                                [url |-> callUrls[c], request |-> c])
         IN  IF limit.thrown
             THEN [calls |-> [s.calls EXCEPT ![c] =
                                 [pc |-> "settled", awaits |-> c,
                                  outcome |-> AnonymousLimitError,
                                  wakeAt |-> 0]],
                   microtasks |-> Append(s.microtasks, c),
                   inflightRequests |-> inflight,
                   lastRequestTime |-> s.lastRequestTime,
                   anonWindowStart |-> limit.anonWindowStart,
                   anonRequestCount |-> limit.anonRequestCount]
             ELSE [calls |-> [s.calls EXCEPT ![c] =
                                 [pc |-> turn.pc, awaits |-> c,
                                  outcome |-> Null, wakeAt |-> turn.wakeAt]],
                   microtasks |-> Queue(s.microtasks, c, turn.pc = "granted"),
                   inflightRequests |-> inflight,
                   lastRequestTime |-> turn.lastRequestTime,
                   anonWindowStart |-> limit.anonWindowStart,
                   anonRequestCount |-> limit.anonRequestCount]

\* The fields of s become the fields of GitHubService and of the calls.
Leaves(s) ==
    /\ calls' = s.calls
    /\ microtasks' = s.microtasks
    /\ inflightRequests' = s.inflightRequests
    /\ lastRequestTime' = s.lastRequestTime
    /\ anonWindowStart' = s.anonWindowStart
    /\ anonRequestCount' = s.anonRequestCount

\* One fetchAPI call is made; calls are made in the order of callUrls.
FetchAPI(c) ==
    /\ calls[c].pc = "idle"
    /\ (IF c = 1 THEN TRUE ELSE calls[c - 1].pc # "idle")
    /\ Leaves(fetchAPI(ServiceState, c))
    /\ UNCHANGED <<engineVars, pageVars, token, nowMs, callUrls, activeRequests>>

\* The 50 ms timer of the slot loop fires: the loop condition is read again.
SlotTimer(c) ==
    /\ calls[c].pc = "waitSlot"
    /\ nowMs >= calls[c].wakeAt
    /\ microtasks = <<>>
    /\ LET turn == waitForTurn(token, nowMs, activeRequests, lastRequestTime)
       IN  /\ calls' = [calls EXCEPT ![c].pc = turn.pc,
                                     ![c].wakeAt = turn.wakeAt]
           /\ microtasks' = Queue(microtasks, c, turn.pc = "granted")
           /\ lastRequestTime' = turn.lastRequestTime
    /\ UNCHANGED <<engineVars, pageVars, token, nowMs, callUrls, inflightRequests,
                   activeRequests, anonWindowStart, anonRequestCount>>

\* The debounce timer fires (lines 99-101).
DebounceTimer(c) ==
    /\ calls[c].pc = "debounce"
    /\ nowMs >= calls[c].wakeAt
    /\ microtasks = <<>>
    /\ calls' = [calls EXCEPT ![c].pc = "granted", ![c].wakeAt = 0]
    /\ microtasks' = Append(microtasks, c)
    /\ lastRequestTime' = nowMs
    /\ UNCHANGED <<engineVars, pageVars, token, nowMs, callUrls, inflightRequests,
                   activeRequests, anonWindowStart, anonRequestCount>>

\* performFetch resumes after `await waitForTurn` (lines 66-68).
StartFetch ==
    /\ microtasks # <<>>
    /\ calls[Head(microtasks)].pc = "granted"
    /\ activeRequests' = activeRequests + 1
    /\ calls' = [calls EXCEPT ![Head(microtasks)].pc = "fetching"]
    /\ microtasks' = Tail(microtasks)
    /\ UNCHANGED <<engineVars, pageVars, token, nowMs, callUrls, inflightRequests,
                   lastRequestTime, anonWindowStart, anonRequestCount>>

\* The response, or the failure of fetch, arrives (lines 68-85): the finally
\* block releases the slot and the request settles.
Respond(c) ==
    /\ calls[c].pc = "fetching"
    /\ microtasks = <<>>
    /\ activeRequests' = activeRequests - 1
    /\ calls' = [calls EXCEPT ![c].pc = "settled",
                              ![c].outcome = FetchOutcome(ServerAnswer(callUrls[c]))]
    /\ microtasks' = Append(microtasks, c)
    /\ UNCHANGED <<engineVars, pageVars, token, nowMs, callUrls, inflightRequests,
                   lastRequestTime, anonWindowStart, anonRequestCount>>

\* fetchAPI resumes after `await request` (lines 47-50).
Finally ==
    /\ microtasks # <<>>
    /\ calls[Head(microtasks)].pc = "settled"
    /\ inflightRequests' = Delete(inflightRequests, callUrls[Head(microtasks)])
    /\ calls' = [calls EXCEPT ![Head(microtasks)].pc = "done"]
    /\ microtasks' = Tail(microtasks)
    /\ UNCHANGED <<engineVars, pageVars, token, nowMs, callUrls, activeRequests,
                   lastRequestTime, anonWindowStart, anonRequestCount>>

\* A call that returned the in-flight promise (line 40) settles with it.
JoinerSettles(c) ==
    /\ calls[c].pc = "joined"
    /\ calls[calls[c].awaits].outcome # Null
    /\ calls' = [calls EXCEPT ![c].pc = "done",
                              ![c].outcome = calls[calls[c].awaits].outcome]
    /\ UNCHANGED <<engineVars, pageVars, token, nowMs, callUrls, microtasks,
                   inflightRequests, activeRequests, lastRequestTime,
                   anonWindowStart, anonRequestCount>>

\* Time passes; it is read by timers and by calls made without a token.
Tick ==
    /\ microtasks = <<>>
    /\ nowMs < StartMs + MaxTicks * TickMs
    /\ \E c \in 1..Len(calls) :
           \/ calls[c].pc \in {"waitSlot", "debounce"}
           \/ calls[c].pc = "idle" /\ ~token
    /\ nowMs' = nowMs + TickMs
    /\ UNCHANGED <<engineVars, pageVars, token, callUrls, calls, microtasks,
                   inflightRequests, activeRequests, lastRequestTime,
                   anonWindowStart, anonRequestCount>>

NextFetch ==
    \/ \E c \in 1..Len(calls) :
           \/ FetchAPI(c)
           \/ SlotTimer(c)
           \/ DebounceTimer(c)
           \/ Respond(c)
           \/ JoinerSettles(c)
    \/ StartFetch
    \/ Finally
    \/ Tick

SpecFetch == InitFetch /\ [][NextFetch]_vars

\* The event loop runs every queued continuation.
SpecFetchFair ==
    SpecFetch /\ WF_vars(StartFetch) /\ WF_vars(Finally)

-----------------------------------------------------------------------------
(* detectFullStacks called on a set of detected technologies.              *)

\* Technology names: lexicon frameworks, tools and language names, three of
\* the languages being substrings of component names.
TechUniverse ==
    <<"MongoDB", "Express", "React", "Node", "Angular", "Vue", "PostgreSQL",
      "Django", "Python", "TypeScript", "Next.js", "Vite", "C", "Go", "R">>

\* The largest set of detected technologies of SpecStacks.
MaxTech == 5

\* A Set of technologies, in the insertion order of TechUniverse.
TechSet(S) == SelectSeq(TechUniverse, LAMBDA t : t \in S)

StackInputs ==
    {TechSet(S) : S \in {T \in SUBSET Range(TechUniverse) :
                            Cardinality(T) <= MaxTech}}

InitStacks ==
    /\ LexiconInit
    /\ PageIdle
    /\ NoEngineCall
    /\ NoLevelCall
    /\ ServiceIdle
    /\ stacksArgs \in StackInputs
    /\ stacksResult = Undefined

\* One call of detectFullStacks(detectedTech).
DetectFullStacks ==
    /\ stacksResult = Undefined
    /\ stacksResult' = [stacks |-> detectFullStacks(stackPatterns, stacksArgs)]
    /\ UNCHANGED <<frameworkKeywords, stackPatterns, techStackMapping, user,
                   repos, contributions, now, pc, result, levelArgs,
                   levelResult, stacksArgs, serviceVars, pageVars>>

NextStacks == DetectFullStacks

SpecStacks == InitStacks /\ [][NextStacks]_vars

-----------------------------------------------------------------------------
(* Quality signals: repository lists long enough for the hit ratios to     *)
(* meet the thresholds exactly (7 of 20 is 0.35, 9 of 20 is 0.45).         *)

\* The longest repository list of SpecQuality.
MaxQualityRepos == 20

\* A description of more than 80 characters holding none of the keywords.
LongDescription ==
    "a long text about this project that says nothing of interest to any of the rules at all"

\* A repository of one kind, updated the given number of days before Clock:
\* "loud" names several keywords of each signal, "spec" one testing keyword,
\* "long" has the long description only, "plain" has nothing.
QualityRepo(kind, daysAgo) ==
    Repo(kind,
         IF kind = "loud" THEN "jest mocha unit ci pipeline workflow docs wiki"
         ELSE IF kind = "long" THEN LongDescription
         ELSE Null,
         IF kind = "spec" THEN <<"spec">> ELSE <<>>,
         Null, 0, Clock - Days(daysAgo), Years(1), Undefined)

\* The days between consecutive updates in a list of SpecQuality.
UpdateGaps == {14, 15, 30, 31, 60, 61, 120, 121}

\* total repositories updated gap days apart: first loud ones, then spec
\* ones, then long ones, then plain ones.
QualityList(total, loud, spec, long, gap) ==
    [i \in 1..total |->
        QualityRepo(IF i <= loud THEN "loud"
                    ELSE IF i <= loud + spec THEN "spec"
                    ELSE IF i <= loud + spec + long THEN "long"
                    ELSE "plain",
                    1 + (i - 1) * gap)]

QualityInputs ==
    {QualityList(total, loud, 0, 0, 14) :
        total \in 1..MaxQualityRepos, loud \in 0..MaxQualityRepos}
    \cup {QualityList(total, loud, 2, 3, 14) :
            total \in 1..MaxQualityRepos, loud \in 0..MaxQualityRepos}
    \cup {QualityList(total, loud, spec, long, gap) :
            total \in 1..3, loud \in 0..1, spec \in 0..1, long \in 0..1,
            gap \in UpdateGaps}

InitQuality ==
    /\ LexiconInit
    /\ PageIdle
    /\ user = [login |-> "u", created_at |-> Years(2) + Days(200)]
    /\ repos \in QualityInputs
    /\ contributions = Undefined
    /\ now = Clock
    /\ pc = "call"
    /\ result = Undefined
    /\ NoLevelCall
    /\ ServiceIdle
    /\ NoStacksCall

SpecQuality == InitQuality /\ [][Next]_vars

-----------------------------------------------------------------------------
(* Opportunities: repository lists whose languages, frameworks and tools   *)
(* satisfy role skills literally and as substrings of skill names.         *)

\* The repositories the lists of SpecOpportunities are drawn from.
OpportunityPool == {
    Repo("dash", "React dashboard", <<"react">>, "JavaScript", 3,
         Clock - Days(3), Years(8),
         [entries |-> <<Entry("JavaScript", 700), Entry("CSS", 300)>>]),
    Repo("ops", "docker kubernetes terraform", <<>>, "Go", 1,
         Clock - Days(20), Years(7),
         [entries |-> <<Entry("Go", 500), Entry("Shell", 100)>>]),
    Repo("kernel", Null, <<>>, "C", 0,
         Clock - Days(40), Years(6),
         [entries |-> <<Entry("C", 900), Entry("Java", 100)>>]),
    Repo("notebooks", "pytorch tensorflow pipeline", <<"flask">>, "Python", 2,
         Clock - Days(300), Years(5),
         [entries |-> <<Entry("Python", 400), Entry("Julia", 50)>>]),
    Repo("mobile", Null, <<>>, "Swift", 0,
         Clock - Days(5), Years(9),
         [entries |-> <<Entry("Swift", 300), Entry("Kotlin", 200)>>]),
    Repo("empty", Null, <<>>, Null, 0,
         Clock - Days(700), Years(4),
         Undefined) }

\* The longest repository list of SpecOpportunities.
MaxOpportunityRepos == 3

InitOpportunities ==
    /\ LexiconInit
    /\ PageIdle
    /\ user = [login |-> "u", created_at |-> Years(2) + Days(200)]
    /\ repos \in SeqsUpTo(OpportunityPool, MaxOpportunityRepos)
    /\ contributions = Undefined
    /\ now = Clock
    /\ pc = "call"
    /\ result = Undefined
    /\ NoLevelCall
    /\ ServiceIdle
    /\ NoStacksCall

SpecOpportunities == InitOpportunities /\ [][Next]_vars

-----------------------------------------------------------------------------
(* Timeline: repository lists in which a language is held by several       *)
(* repositories created in different years, under different letter case,   *)
(* as primary language only, and next to more than three other languages.  *)

\* The repositories the lists of SpecTimeline are drawn from.
TimelinePool == {
    Repo("scripts", Null, <<>>, "python", 0,
         Clock - Days(900), Years(3) + Days(40),
         Undefined),
    Repo("service", "A service", <<>>, "Python", 2,
         Clock - Days(30), Years(5) + Days(10),
         [entries |-> <<Entry("Python", 1000)>>]),
    Repo("site", Null, <<>>, "JavaScript", 7,
         Clock - Days(200), Years(4) + Days(300),
         [entries |-> <<Entry("JavaScript", 60), Entry("Python", 50)>>]),
    Repo("widgets", Null, <<>>, Null, 1,
         Clock - Days(2), Years(8) + Days(100),
         [entries |-> <<Entry("JAVASCRIPT", 10)>>]),
    Repo("engine", "", <<>>, "Rust", 9,
         Clock - Days(400), Years(6) + Days(200),
         [entries |-> <<Entry("Rust", 500), Entry("Go", 400), Entry("C", 300),
                        Entry("Zig", 200)>>]) }

\* The longest repository list of SpecTimeline.
MaxTimelineRepos == 3

InitTimeline ==
    /\ LexiconInit
    /\ PageIdle
    /\ user = [login |-> "u", created_at |-> Years(2) + Days(200)]
    /\ repos \in SeqsUpTo(TimelinePool, MaxTimelineRepos)
    /\ contributions = Undefined
    /\ now = Clock
    /\ pc = "call"
    /\ result = Undefined
    /\ NoLevelCall
    /\ ServiceIdle
    /\ NoStacksCall

SpecTimeline == InitTimeline /\ [][Next]_vars

-----------------------------------------------------------------------------
(* GitHubService.analyzeUser on the event loop: the three requests of the  *)
(* first Promise.all, parseContributionStats, the language requests of the *)
(* first 15 repositories, and the value handed to analyzeRepositories.     *)
(* The engine's arguments user, repos and contributions are the fields of  *)
(* the object analyzeUser resolves with; before that, repos holds the      *)
(* local `repos` of analyzeUser.                                           *)

\* repos.slice(0, 15)
TopRepoCount == 15

UserUrl(name) == "/users/" \o name

ReposUrl(name) == "/users/" \o name \o "/repos?per_page=100&sort=updated"

EventsUrl(name) == "/users/" \o name \o "/events?per_page=30"

LanguagesUrlOf(owner, i) ==
    "/repos/" \o owner \o "/r" \o ToString(i) \o "/languages"

\* The accounts the server knows: u's events feed answers 403 and x's request
\* for it fails; v has two repositories and an empty feed; w has two more
\* repositories than analyzeUser fetches languages for, and a feed.
ServerUsers == {"u", "v", "w", "x"}

ServerRepoCount(name) ==
    CASE name = "u" -> 1
      [] name = "v" -> 2
      [] name = "w" -> TopRepoCount + 2
      [] OTHER      -> 0

\* GET /users/{name}
ServerUser(name) == [login |-> name, created_at |-> Years(2) + Days(200)]

\* One Repository of GET /users/{name}/repos: every fourth has no primary
\* language.
ServerRepo(owner, i) ==
    [name |-> "r" \o ToString(i),
     description |-> (IF i % 2 = 0 THEN "A tool" ELSE Null),
     language |-> (IF i % 4 = 1 THEN Null
                   ELSE IF i % 2 = 0 THEN "Go" ELSE "Python"),
     languages_url |-> LanguagesUrlOf(owner, i),
     stargazers_count |-> 40 - i,
     forks_count |-> i % 3,
     size |-> 100 * i,
     created_at |-> Years(3) + Days(i),
     updated_at |-> Clock - Days(i),
     topics |-> (IF i % 3 = 0 THEN <<>> ELSE <<"cli">>),
     html_url |-> "https://github.com/" \o owner \o "/r" \o ToString(i)]

ServerRepos(name) == [i \in 1..ServerRepoCount(name) |-> ServerRepo(name, i)]

\* GET {languages_url} of repository i: another map for every repository.
ServerLanguages(owner, i) ==
    [entries |-> <<Entry("Python", 10 * i), Entry("Shell", i)>>]

PullRequest(merged, state, n) ==
    [merged |-> merged, state |-> state, title |-> "PR " \o ToString(n),
     html_url |-> "https://github.com/o/lib/pull/" \o ToString(n),
     created_at |-> Clock - Days(n)]

Event(type, repoName, action, pr) ==
    [type |-> type, repo |-> [name |-> repoName],
     payload |-> [action |-> action, pull_request |-> pr]]

\* GET /users/{name}/events, newest first: seven opened pull requests with a
\* pull_request payload (open, merged, closed), one without, one closed,
\* issues and a push.
ServerEvents(name) ==
    IF name # "w" THEN <<>>
    ELSE <<Event("PullRequestEvent", "o/lib", "opened", PullRequest(FALSE, "open", 1)),
           Event("PullRequestEvent", "o/lib", "closed", PullRequest(TRUE, "closed", 2)),
           Event("PullRequestEvent", "o/lib", "opened", PullRequest(TRUE, "closed", 3)),
           Event("PullRequestEvent", "o/lib/extra", "opened", PullRequest(FALSE, "closed", 4)),
           Event("IssuesEvent", "o/lib", "opened", Undefined),
           Event("IssuesEvent", "o/lib", "closed", Undefined),
           Event("PushEvent", "o/lib", Null, Undefined),
           Event("PullRequestEvent", "o/lib", "opened", Undefined),
           Event("PullRequestEvent", "solo", "opened", PullRequest(FALSE, "open", 9)),
           Event("PullRequestEvent", "o/", "opened", PullRequest(FALSE, "open", 10)),
           Event("PullRequestEvent", "o/lib", "opened", PullRequest(FALSE, "open", 11)),
           Event("PullRequestEvent", "o/lib", "opened", PullRequest(TRUE, "closed", 12))>>

\* The positions of "/" in a string.
Slashes(s) == {i \in 1..Len(s) : SubSeq(s, i, i) = "/"}

\* event.repo.name.split('/')[1] || event.repo.name
ShortRepoName(full) ==
    IF Slashes(full) = {} THEN full
    ELSE LET first  == CHOOSE i \in Slashes(full) : \A j \in Slashes(full) : i <= j
             later  == {j \in Slashes(full) : j > first}
             until  == IF later = {} THEN Len(full)
                       ELSE (CHOOSE j \in later : \A k \in later : j <= k) - 1
             second == SubSeq(full, first + 1, until)
         IN  IF second = "" THEN full ELSE second

\* A faulty variant of RecentPRsHasRoom: no limit.
RecentPRsAlwaysRoom(recentPRs) == TRUE

\* recentPRs.length < 5
RecentPRsHasRoom(recentPRs) == Len(recentPRs) < 5

\* One round of `for (const event of prEvents)` (lines 161-182).
CountPullRequest(acc, event) ==
    LET opened == event.payload.action = "opened"
        pr     == event.payload.pull_request
        total  == acc.totalPRs + (IF opened THEN 1 ELSE 0)
    IN  IF pr = Undefined
        THEN [acc EXCEPT !.totalPRs = total]
        ELSE [totalPRs  |-> total,
              mergedPRs |-> acc.mergedPRs + (IF pr.merged THEN 1 ELSE 0),
              openPRs   |-> acc.openPRs
                                + (IF ~pr.merged /\ pr.state = "open" THEN 1 ELSE 0),
              recentPRs |->
                  IF RecentPRsHasRoom(acc.recentPRs) /\ opened
                  THEN Append(acc.recentPRs,
                              [repo |-> ShortRepoName(event.repo.name),
                               title |-> pr.title,
                               state |-> (IF pr.merged THEN "merged"
                                          ELSE IF pr.state = "open" THEN "open"
                                          ELSE "closed"),
                               url |-> pr.html_url,
                               createdAt |-> pr.created_at])
                  ELSE acc.recentPRs]

RECURSIVE CountPullRequests(_, _)
CountPullRequests(acc, prEvents) ==
    IF prEvents = <<>> THEN acc
    ELSE CountPullRequests(CountPullRequest(acc, Head(prEvents)), Tail(prEvents))

\* parseContributionStats(events)
parseContributionStats(events) ==
    LET prEvents    == SelectSeq(events, LAMBDA e : e.type = "PullRequestEvent")
        issueEvents == SelectSeq(events, LAMBDA e : e.type = "IssuesEvent")
        prs == CountPullRequests([totalPRs |-> 0, mergedPRs |-> 0, openPRs |-> 0,
                                  recentPRs |-> <<>>], prEvents)
    IN  [totalPRs     |-> prs.totalPRs,
         mergedPRs    |-> prs.mergedPRs,
         openPRs      |-> prs.openPRs,
         totalIssues  |-> Len(SelectSeq(issueEvents,
                                        LAMBDA e : e.payload.action = "opened")),
         closedIssues |-> Len(SelectSeq(issueEvents,
                                        LAMBDA e : e.payload.action = "closed")),
         recentPRs    |-> prs.recentPRs]

\* The account analyzeUser is called for.
Username == CHOOSE name \in ServerUsers : callUrls[1] = UserUrl(name)

\* The promise of fetchAPI call c once it has settled, for a response `body`.
Settled(c, body) ==
    IF calls[c].outcome = "resolved"
    THEN [rejected |-> FALSE, value |-> body]
    ELSE [rejected |-> TRUE, value |-> calls[c].outcome]

\* getUserEvents (lines 141-150): `return this.fetchAPI(...)` hands the promise
\* of fetchAPI to the caller without awaiting it inside the try block, so the
\* catch block sees no rejection and the promise returned settles as the
\* request did.
getUserEvents(request) == request

\* The promises of the first Promise.all (lines 209-213), once settled.
FirstRequests ==
    <<Settled(1, ServerUser(Username)),
      Settled(2, ServerRepos(Username)),
      getUserEvents(Settled(3, ServerEvents(Username)))>>

\* A faulty variant of topRepoWithLanguages: a failed request leaves the
\* repository out.
topRepoDropped(repo, request) ==
    IF request.rejected THEN <<>>
    ELSE <<[name |-> repo.name, description |-> repo.description,
            language |-> repo.language,
            stargazers_count |-> repo.stargazers_count,
            forks_count |-> repo.forks_count, updated_at |-> repo.updated_at,
            created_at |-> repo.created_at, html_url |-> repo.html_url,
            topics |-> repo.topics, languageStats |-> request.value]>>

\* The callback of topRepos.map (lines 223-252) once its request has settled:
\* the elements it contributes to topReposWithLanguages.  repo.topics || []
\* is repo.topics for an array.
topRepoWithLanguages(repo, request) ==
    <<[name |-> repo.name, description |-> repo.description,
       language |-> repo.language,
       stargazers_count |-> repo.stargazers_count,
       forks_count |-> repo.forks_count, updated_at |-> repo.updated_at,
       created_at |-> repo.created_at, html_url |-> repo.html_url,
       topics |-> repo.topics,
       languageStats |-> (IF request.rejected THEN [entries |-> <<>>]
                          ELSE request.value)]>>

\* The callback of otherRepos.map (lines 256-267).
otherRepoBasic(repo) ==
    [name |-> repo.name, description |-> repo.description,
     language |-> repo.language,
     stargazers_count |-> repo.stargazers_count,
     forks_count |-> repo.forks_count, updated_at |-> repo.updated_at,
     created_at |-> repo.created_at, html_url |-> repo.html_url,
     topics |-> repo.topics,
     languageStats |-> (IF repo.language # Null /\ repo.language # ""
                        THEN [entries |-> <<Entry(repo.language, 1)>>]
                        ELSE [entries |-> <<>>])]

\* The fetchAPI call of the language request of repository i.
LanguageCall(i) == 3 + i

RECURSIVE TopReposWithLanguages(_, _)
TopReposWithLanguages(rs, i) ==
    IF i > Min(Len(rs), TopRepoCount) THEN <<>>
    ELSE topRepoWithLanguages(rs[i], Settled(LanguageCall(i),
                                             ServerLanguages(Username, i)))
             \o TopReposWithLanguages(rs, i + 1)

\* [...topReposWithLanguages, ...otherReposBasic]
ReposWithLanguages(rs) ==
    TopReposWithLanguages(rs, 1)
        \o [i \in 1..(Len(rs) - Min(Len(rs), TopRepoCount)) |->
                otherRepoBasic(rs[TopRepoCount + i])]

\* fetchAPI calls c..last made one after the other in one turn.
RECURSIVE fetchEach(_, _, _)
fetchEach(s, c, last) ==
    IF c > last THEN s ELSE fetchEach(fetchAPI(s, c), c + 1, last)

\* Every fetchAPI call analyzeUser(name) makes when nothing fails.
UserCalls(name) ==
    <<UserUrl(name), ReposUrl(name), EventsUrl(name)>>
        \o [i \in 1..Min(ServerRepoCount(name), TopRepoCount) |->
                LanguagesUrlOf(name, i)]

\* An anonymous window opened a second ago with `left` requests left.
WindowWithLeft(left) ==
    [anonWindowStart |-> StartMs - 1000, anonRequestCount |-> ANON_LIMIT - left]

\* The accounts analysed with and without a token, and with a token only.
UserInputs ==
    ({"u", "v", "x"} \X BOOLEAN) \cup {<<"w", TRUE>>}

InitUser ==
    /\ LexiconInit
    /\ PageIdle
    /\ NoEngineCall
    /\ NoLevelCall
    /\ NoStacksCall
    /\ \E input \in UserInputs :
           /\ token = input[2]
           /\ callUrls = UserCalls(input[1])
    /\ nowMs = StartMs
    /\ calls = [c \in 1..Len(callUrls) |-> IdleCall]
    /\ microtasks = <<>>
    /\ inflightRequests = <<>>
    /\ activeRequests = 0
    /\ \E window \in (IF token THEN {FreshWindow}
                      ELSE {FreshWindow, WindowWithLeft(2), WindowWithLeft(4)}) :
           /\ lastRequestTime = window.anonWindowStart
           /\ anonWindowStart = window.anonWindowStart
           /\ anonRequestCount = window.anonRequestCount

\* analyzeUser(username) up to its first await (lines 208-214): the three
\* requests are started in one turn.
AnalyzeUser ==
    /\ pc = "idle"
    /\ Leaves(fetchEach(ServiceState, 1, 3))
    /\ pc' = "analyzeUser"
    /\ UNCHANGED <<frameworkKeywords, stackPatterns, techStackMapping, user,
                   repos, contributions, now, result, levelArgs, levelResult,
                   stacksArgs, stacksResult, token, nowMs, callUrls,
                   activeRequests, pageVars>>

\* The first Promise.all rejects with the first of its promises that does.
AnalyzeUserRejects ==
    /\ pc = "analyzeUser"
    /\ \E c \in 1..3 : calls[c].pc = "done" /\ FirstRequests[c].rejected
    /\ pc' = "rejected"
    /\ UNCHANGED <<frameworkKeywords, stackPatterns, techStackMapping, user,
                   repos, contributions, now, result, levelArgs, levelResult,
                   stacksArgs, stacksResult, serviceVars, pageVars>>

\* The first Promise.all resolves (lines 209-252): the events are parsed and
\* the language requests of the first 15 repositories are started in one turn.
AnalyzeUserLanguages ==
    /\ pc = "analyzeUser"
    /\ \A c \in 1..3 : calls[c].pc = "done" /\ ~FirstRequests[c].rejected
    /\ user' = FirstRequests[1].value
    /\ repos' = FirstRequests[2].value
    /\ contributions' = parseContributionStats(FirstRequests[3].value)
    /\ Leaves(fetchEach(ServiceState, LanguageCall(1),
                        LanguageCall(Min(Len(repos'), TopRepoCount))))
    /\ pc' = "languages"
    /\ UNCHANGED <<frameworkKeywords, stackPatterns, techStackMapping, now,
                   result, levelArgs, levelResult, stacksArgs, stacksResult,
                   token, nowMs, callUrls, activeRequests, pageVars>>

\* The second Promise.all resolves and analyzeUser returns (lines 254-273).
AnalyzeUserReturns ==
    /\ pc = "languages"
    /\ \A c \in 4..Len(calls) : calls[c].pc = "done"
    /\ repos' = ReposWithLanguages(repos)
    /\ pc' = "call"
    /\ UNCHANGED <<frameworkKeywords, stackPatterns, techStackMapping, user,
                   contributions, now, result, levelArgs, levelResult,
                   stacksArgs, stacksResult, serviceVars, pageVars>>

\* Time passes until the next timer is due.
TimerElapses ==
    /\ microtasks = <<>>
    /\ LET waiting == {c \in 1..Len(calls) : calls[c].pc \in {"waitSlot", "debounce"}}
       IN  /\ waiting # {}
           /\ \A c \in waiting : calls[c].wakeAt > nowMs
           /\ nowMs' = calls[CHOOSE c \in waiting :
                               \A d \in waiting : calls[c].wakeAt <= calls[d].wakeAt].wakeAt
    /\ UNCHANGED <<engineVars, pageVars, token, callUrls, calls, microtasks,
                   inflightRequests, activeRequests, lastRequestTime,
                   anonWindowStart, anonRequestCount>>

NextUser ==
    \/ AnalyzeUser
    \/ AnalyzeUserRejects
    \/ AnalyzeUserLanguages
    \/ AnalyzeUserReturns
    \/ AnalyzeRepositories
    \/ StartFetch
    \/ Finally
    \/ TimerElapses
    \/ \E c \in 1..Len(calls) :
           \/ DebounceTimer(c)
           \/ Respond(c)

SpecUser == InitUser /\ [][NextUser]_vars

-----------------------------------------------------------------------------
(* The load effect of the Analysis page (pages/Analysis.tsx lines 43-102). *)
(* The effect runs analyzeGitHub when the page mounts and whenever         *)
(* username, hasComparison or compareUsername change; it returns no        *)
(* cleanup function.  A run is suspended at each await and at its timer;   *)
(* an AnalysisResult is named by the account it analyses.                  *)

\* The accounts of the route's username, and its compare parameter after
\* trim() (empty when absent).
PageUsernames == {"u", "v", "w"}

CompareParameters == {"", "u", "w", "V"}

\* The longest sequence of effect runs.
MaxRuns == 2

\* githubService.analyzeUser(name) rejects: its events request fails.
AnalyzeUserFails(name) == ServerAnswer(EventsUrl(name)) # "ok"

\* err.message of that rejection
AnalyzeUserError(name) == FetchOutcome(ServerAnswer(EventsUrl(name)))

\* analyzer.analyzeRepositories(user, repos, contributions) for the value
\* analyzeUser(name) resolves with.
AnalysisOf(name) == [user |-> ServerUser(name)]

DuplicateError ==
    "Comparison target duplicates the primary username. Choose a different handle."

\* setProgress(100); setTimeout(() => setLoading(false), 220) (lines 87-90)
TimerSet(r) == Append(timers, r)

\* The earlier runs awaiting analyzeUser(name) share its requests
\* (githubService.ts lines 39-41) and resume first.
ResumesFirst(r, name) ==
    \A q \in 1..(r - 1) :
        ~(\/ runs[q].pc = "primary" /\ runs[q].username = name
          \/ runs[q].pc = "compare" /\ runs[q].compare = name)

\* analyzeGitHub up to its first await (lines 50-58).
EffectRuns ==
    [loading |-> TRUE, error |-> Null, compareError |-> Null, result |-> NoResult,
     comparison |-> NoResult, progress |-> 25]

\* The page mounts or the route changes: the effect starts a run.
Effect ==
    /\ Len(runs) < MaxRuns
    /\ \E username \in PageUsernames, compare \in CompareParameters :
           /\ [username |-> username, compare |-> compare] # route
           /\ route' = [username |-> username, compare |-> compare]
           /\ runs' = Append(runs, [username |-> username, compare |-> compare,
                                    pc |-> "primary"])
    /\ page' = EffectRuns
    /\ UNCHANGED <<engineVars, serviceVars, timers>>

\* `await githubService.analyzeUser(username)` of run r resolves (lines 59-71,
\* 87-90).
PrimaryResolves(r) ==
    /\ runs[r].pc = "primary"
    /\ ~AnalyzeUserFails(runs[r].username)
    /\ ResumesFirst(r, runs[r].username)
    /\ LET hasComparison == runs[r].compare # ""
           shown == [page EXCEPT !.result = AnalysisOf(runs[r].username)]
       IN  IF ~hasComparison
           THEN /\ page' = [shown EXCEPT !.progress = 100]
                /\ timers' = TimerSet(r)
                /\ runs' = [runs EXCEPT ![r].pc = "timer"]
           ELSE IF ToLowerCase(runs[r].compare) = ToLowerCase(runs[r].username)
           THEN /\ page' = [shown EXCEPT !.comparison = NoResult,
                                         !.compareError = DuplicateError,
                                         !.progress = 100]
                /\ timers' = TimerSet(r)
                /\ runs' = [runs EXCEPT ![r].pc = "timer"]
           ELSE /\ page' = [shown EXCEPT !.progress = 60]
                /\ runs' = [runs EXCEPT ![r].pc = "compare"]
                /\ UNCHANGED timers
    /\ UNCHANGED <<engineVars, serviceVars, route>>

\* It rejects: the outer catch (lines 91-97).
PrimaryRejects(r) ==
    /\ runs[r].pc = "primary"
    /\ AnalyzeUserFails(runs[r].username)
    /\ ResumesFirst(r, runs[r].username)
    /\ page' = [page EXCEPT !.error = AnalyzeUserError(runs[r].username),
                            !.result = NoResult, !.comparison = NoResult,
                            !.loading = FALSE, !.progress = 0]
    /\ runs' = [runs EXCEPT ![r].pc = "finished"]
    /\ UNCHANGED <<engineVars, serviceVars, route, timers>>

\* `await githubService.analyzeUser(compareUsername)` of run r resolves
\* (lines 72-76, 87-90).
CompareResolves(r) ==
    /\ runs[r].pc = "compare"
    /\ ~AnalyzeUserFails(runs[r].compare)
    /\ ResumesFirst(r, runs[r].compare)
    /\ page' = [page EXCEPT !.comparison = AnalysisOf(runs[r].compare),
                            !.progress = 100]
    /\ timers' = TimerSet(r)
    /\ runs' = [runs EXCEPT ![r].pc = "timer"]
    /\ UNCHANGED <<engineVars, serviceVars, route>>

\* It rejects: the inner catch (lines 77-84, 87-90).
CompareRejects(r) ==
    /\ runs[r].pc = "compare"
    /\ AnalyzeUserFails(runs[r].compare)
    /\ ResumesFirst(r, runs[r].compare)
    /\ page' = [page EXCEPT !.comparison = NoResult,
                            !.compareError =
                                "Comparison failed for " \o runs[r].compare
                                    \o ": " \o AnalyzeUserError(runs[r].compare),
                            !.progress = 100]
    /\ timers' = TimerSet(r)
    /\ runs' = [runs EXCEPT ![r].pc = "timer"]
    /\ UNCHANGED <<engineVars, serviceVars, route>>

\* The oldest 220 ms timer fires: setLoading(false) (lines 88-90).
LoadingOff ==
    /\ timers # <<>>
    /\ page' = [page EXCEPT !.loading = FALSE]
    /\ runs' = [runs EXCEPT ![Head(timers)].pc = "finished"]
    /\ timers' = Tail(timers)
    /\ UNCHANGED <<engineVars, serviceVars, route>>

InitPage ==
    /\ LexiconInit
    /\ PageIdle
    /\ NoEngineCall
    /\ NoLevelCall
    /\ NoStacksCall
    /\ ServiceIdle

NextPage ==
    \/ Effect
    \/ LoadingOff
    \/ \E r \in 1..Len(runs) :
           \/ PrimaryResolves(r)
           \/ PrimaryRejects(r)
           \/ CompareResolves(r)
           \/ CompareRejects(r)

SpecPage == InitPage /\ [][NextPage]_vars

-----------------------------------------------------------------------------
(* Properties.                                                             *)

Done == pc = "done"

\* The language names and the bytes of the argument, read off the input.
InputLanguages(rs) ==
    UNION {{LanguageEntries(rs[i])[j].language :
                j \in 1..Len(LanguageEntries(rs[i]))} : i \in 1..Len(rs)}

InputBytes(rs) ==
    SumSeq([i \in 1..Len(rs) |->
               SumSeq([j \in 1..Len(LanguageEntries(rs[i])) |->
                          LanguageEntries(rs[i])[j].bytes])])

\* The percentages of a language list sum to 100 within 0.01: with the common
\* denominator den, |sum(num) / den - 100| <= 1/100.
SumsToHundred(top) ==
    /\ top # <<>>
    /\ LET den == top[1].percentage.den
           num == SumSeq([i \in 1..Len(top) |-> top[i].percentage.num])
       IN  /\ den > 0
           /\ \A i \in 1..Len(top) : top[i].percentage.den = den
           /\ Abs(100 * num - 10000 * den) <= den

Disjoint(a, b) == Range(a) \cap Range(b) = {}

\* C2: stackDepth.core, .supporting and .emerging are pairwise disjoint.
C2_StackDepthDisjoint ==
    Done =>
        LET depth == result.skillAnalysis.stackDepth
        IN  /\ Disjoint(depth.core, depth.supporting)
            /\ Disjoint(depth.core, depth.emerging)
            /\ Disjoint(depth.supporting, depth.emerging)

\* All three tiers are populated, and Django, detected in one repository only
\* (so added to supporting), is in core through techStack.primary.
C2_Witness ==
    /\ Done
    /\ result.skillAnalysis.stackDepth.core # <<>>
    /\ result.skillAnalysis.stackDepth.supporting # <<>>
    /\ result.skillAnalysis.stackDepth.emerging # <<>>
    /\ "Django" \in Range(result.skillAnalysis.stackDepth.core)
    /\ FrameworkUsage(DetectPerText(frameworkKeywords, SearchTexts(repos)),
                      "Django") = 1

\* C3: the highlights hold no two entries with the same repository name, at
\* most min(3, repository count) entries, and none for no repositories.
C3_HighlightsUniqueAndBounded ==
    Done =>
        LET h == result.highlights
        IN  /\ \A i, j \in 1..Len(h) : i # j => h[i].name # h[j].name
            /\ Len(h) <= 3
            /\ Len(h) <= Len(repos)
            /\ repos = <<>> => h = <<>>

\* Three repositories, two different ones sharing a name: two highlights.
C3_Witness ==
    /\ Done
    /\ Len(repos) = 3
    /\ \E i, j \in 1..Len(repos) :
           repos[i].name = repos[j].name /\ repos[i] # repos[j]
    /\ Len(result.highlights) = 2

SamePair(a, b) == a.year = b.year /\ a.title = b.title

\* C4: the timeline is ordered by non-decreasing year, holds no two events with
\* the same (year, title), and holds for every generated (year, title) the
\* event generated first with it.
C4_TimelineSortedAndUnique ==
    Done =>
        LET t == result.timeline
            g == GeneratedEvents(user, repos, result.skillAnalysis, now)
        IN  /\ \A i \in 1..(Len(t) - 1) : t[i].year <= t[i + 1].year
            /\ \A i, j \in 1..Len(t) : i # j => ~SamePair(t[i], t[j])
            /\ \A k \in 1..Len(g) : \E i \in 1..Len(t) : SamePair(t[i], g[k])
            /\ \A i \in 1..Len(t) :
                   \E k \in 1..Len(g) :
                       /\ g[k] = t[i]
                       /\ \A j \in 1..(k - 1) : ~SamePair(g[j], g[k])

\* Events were generated out of year order, two of them with the same
\* (year, title) and different descriptions, and the later one was dropped.
C4_Witness ==
    /\ Done
    /\ LET g == GeneratedEvents(user, repos, result.skillAnalysis, now)
       IN  /\ \E k \in 1..(Len(g) - 1) : g[k].year > g[k + 1].year
           /\ \E j, k \in 1..Len(g) :
                  j < k /\ SamePair(g[j], g[k]) /\ g[j] # g[k]
           /\ Len(result.timeline) = Len(g) - 1

\* C5: velocityScore is in [5, 100] for a non-empty repository list; the empty
\* list gives the default record.
C5_VelocityBounds ==
    Done =>
        /\ repos # <<>> =>
               (result.activity.velocityScore >= 5
                /\ result.activity.velocityScore <= 100)
        /\ repos = <<>> =>
               result.activity =
                   [recentPushes |-> 0, activeLast30Days |-> 0,
                    activeLast90Days |-> 0, medianUpdateInterval |-> 90,
                    longestQuietStreak |-> 0, velocityScore |-> 0]

\* A repository updated after the clock was analysed and the upper clamp acted.
C5_Witness ==
    /\ Done
    /\ \E i \in 1..Len(repos) : repos[i].updated_at > now
    /\ result.activity.velocityScore = 100

\* C6: the analysis of an empty repository list gives velocityScore 0, testing
\* 'Sparse', no highlights and a timeline of the single event "Joined GitHub";
\* the mean star count 0/0 adds nothing to the experience score, and the level
\* is a defined one: Beginner, since the account age alone scores at most 4.
C6_EmptyRepositoryList ==
    (Done /\ repos = <<>>) =>
        /\ result.activity.velocityScore = 0
        /\ result.quality.testing = "Sparse"
        /\ result.highlights = <<>>
        /\ Len(result.timeline) = 1
        /\ result.timeline[1].title = "Joined GitHub"
        /\ result.skillAnalysis.experienceLevel = "Beginner"

\* The empty list was analysed for an account older than 7 years.
C6_Witness ==
    /\ Done
    /\ repos = <<>>
    /\ result.skillAnalysis.accountAge.num >= 70
    /\ result.skillAnalysis.totalProjects = 0

Band(geq(_), edges) ==
    IF geq(edges[1].at) THEN edges[1].points
    ELSE IF geq(edges[2].at) THEN edges[2].points
    ELSE IF geq(edges[3].at) THEN edges[3].points
    ELSE IF Len(edges) >= 4 /\ geq(edges[4].at) THEN edges[4].points
    ELSE 0

Edge(at, points) == [at |-> at, points |-> points]

ClaimedScore(args) ==
    Band(LAMBDA k : args.accountAge.den # 0
                    /\ args.accountAge.num >= k * args.accountAge.den,
         <<Edge(7, 4), Edge(5, 3), Edge(3, 2), Edge(1, 1)>>)
    + Band(LAMBDA k : args.totalProjects >= k,
           <<Edge(100, 4), Edge(50, 3), Edge(20, 2), Edge(10, 1)>>)
    + Band(LAMBDA k : args.activeProjects >= k,
           <<Edge(20, 3), Edge(10, 2), Edge(5, 1)>>)
    + Band(LAMBDA k : args.avgStars.den # 0
                      /\ args.avgStars.num >= k * args.avgStars.den,
           <<Edge(100, 4), Edge(50, 3), Edge(20, 2), Edge(5, 1)>>)

InScenario(rs) ==
    /\ Len(rs) = ScenarioRepos
    /\ InputLanguages(rs) = {"Python"}
    /\ \A i \in 1..Len(rs) : LanguageEntries(rs[i]) # <<>>
    /\ Cardinality({i \in 1..Len(rs) : "django" \in Range(rs[i].topics)}) = 1

\* The "Django Stack" pattern's threshold is met by the technologies of the
\* result: its frameworks and its first five languages.
DjangoStackMet(res) ==
    LET tech == res.skillAnalysis.techStack.frameworks
                \o Languages(Slice(res.skillAnalysis.topLanguages, 0, 5))
        techArray == [i \in 1..Len(tech) |-> ToLowerCase(tech[i])]
    IN  Len(Filter(<<"Django", "PostgreSQL", "Python">>,
                   LAMBDA comp : ComponentPresent(techArray, comp))) >= 2

\* C10 as stated: in the scenario techStack.primary is ["Django"] when the
\* "Django Stack" threshold is met and ["Python"] otherwise.
C10_PrimaryDjangoOrPython ==
    (Done /\ InScenario(repos)) =>
        result.skillAnalysis.techStack.primary =
            (IF DjangoStackMet(result) THEN <<"Django">> ELSE <<"Python">>)

\* C10 amended: in the scenario techStack.primary is
\* ["Django Stack", "Django"]: the pattern's threshold is met by Django and
\* Python, and the Django rule then appends "Django".
C10_PrimaryDjangoStackThenDjango ==
    (Done /\ InScenario(repos)) =>
        /\ DjangoStackMet(result)
        /\ result.skillAnalysis.techStack.primary = <<"Django Stack", "Django">>

\* The scenario was analysed with the django repository third in the list.
C10_Witness ==
    /\ Done
    /\ InScenario(repos)
    /\ "django" \in Range(repos[3].topics)
    /\ result.skillAnalysis.topLanguages # <<>>
    /\ result.skillAnalysis.topLanguages[1].language = "Python"


UpdateTimesOf(rs) == {rs[i].updated_at : i \in 1..Len(rs)}

SetMax(S) == CHOOSE x \in S : \A y \in S : y <= x

SetMin(S) == CHOOSE x \in S : \A y \in S : x <= y

\* Days since the update of the most and of the least recently updated one.
DaysSinceNewest(rs) == diffDays(SetMax(UpdateTimesOf(rs)), now)

DaysSinceOldest(rs) == diffDays(SetMin(UpdateTimesOf(rs)), now)

\* The day gaps between consecutive repositories in descending update order.
Gaps(rs) == Intervals(ByUpdateDesc(rs))

\* C11: two repositories updated 10 and 100 days before now give one gap of 90
\* days, medianUpdateInterval 90 and longestQuietStreak 90.
C11_TenAndHundredDays ==
    (Done /\ Len(repos) = 2
          /\ UpdateTimesOf(repos) = {now - Days(10), now - Days(100)}) =>
        /\ Gaps(repos) = <<90>>
        /\ result.activity.medianUpdateInterval = 90
        /\ result.activity.longestQuietStreak = 90

\* The scenario was analysed with the older repository first in the list.
C11_Witness ==
    /\ Done
    /\ Len(repos) = 2
    /\ repos[1].updated_at = now - Days(100)
    /\ repos[2].updated_at = now - Days(10)
    /\ result.activity.recentPushes = 1

\* C16 as stated: longestQuietStreak is the maximum of the gaps and the
\* days-since-update of the least recently updated repository.
C16_StreakCountsOldest ==
    (Done /\ repos # <<>>) =>
        result.activity.longestQuietStreak =
            SetMax(Range(Gaps(repos)) \cup {DaysSinceOldest(repos)})

\* C16 amended: longestQuietStreak is the maximum of the gaps and the
\* days-since-update of the most recently updated repository; for a single
\* repository it is that repository's days-since-update.
C16_StreakCountsNewest ==
    (Done /\ repos # <<>>) =>
        /\ result.activity.longestQuietStreak =
               SetMax(Range(Gaps(repos)) \cup {DaysSinceNewest(repos)})
        /\ Len(repos) = 1 =>
               result.activity.longestQuietStreak
                   = diffDays(repos[1].updated_at, now)

\* Several repositories were analysed whose newest update is further back than
\* every gap, and whose oldest update is further back still.
C16_Witness ==
    /\ Done
    /\ Len(repos) >= 2
    /\ result.activity.longestQuietStreak > SetMax(Range(Gaps(repos)))
    /\ DaysSinceOldest(repos) > result.activity.longestQuietStreak

\* The integers nearest to n / d (two of them at a tie), d > 0.
Nearest(n, d) == {r \in ((n \div d) - 1)..((n \div d) + 1) :
                     Abs(2 * (n - r * d)) <= d}

\* The k-th smallest of the values v[1..n], by rank.
KthSmallest(v, k) ==
    CHOOSE x \in Range(v) :
        /\ Cardinality({j \in 1..Len(v) : v[j] < x}) < k
        /\ k <= Cardinality({j \in 1..Len(v) : v[j] <= x})

\* The update times of rs from the latest to the earliest.
DescendingUpdates(rs) ==
    LET times == [i \in 1..Len(rs) |-> rs[i].updated_at]
    IN  [i \in 1..Len(rs) |-> KthSmallest(times, Len(rs) + 1 - i)]

\* m is the median of the values g: the middle one of an odd count, the mean
\* of the two middle ones, rounded to a nearest integer, of an even count.
IsMedian(m, g) ==
    IF Len(g) % 2 = 1
    THEN m = KthSmallest(g, (Len(g) + 1) \div 2)
    ELSE m \in Nearest(KthSmallest(g, Len(g) \div 2)
                       + KthSmallest(g, Len(g) \div 2 + 1), 2)

\* C17: for N >= 2 repositories medianUpdateInterval is the median of the
\* N - 1 day gaps between consecutive repositories in descending update order;
\* for N = 1 it is the repository's days-since-update.
C17_MedianOfGaps ==
    Done =>
        /\ Len(repos) = 1 =>
               result.activity.medianUpdateInterval
                   \in Nearest(now - repos[1].updated_at, dayMs)
        /\ Len(repos) >= 2 =>
               LET s == DescendingUpdates(repos)
                   g == [i \in 1..(Len(repos) - 1) |->
                            SetMax(Nearest(s[i] - s[i + 1], dayMs))]
               IN  IsMedian(result.activity.medianUpdateInterval, g)

\* An even number of gaps whose two middle values have an odd sum, so that the
\* mean was rounded.
C17_Witness ==
    /\ Done
    /\ Len(repos) = 3
    /\ (Gaps(repos)[1] + Gaps(repos)[2]) % 2 = 1
    /\ result.activity.medianUpdateInterval
           = (Gaps(repos)[1] + Gaps(repos)[2] + 1) \div 2


\* The calls whose network request for url is outstanding: started by
\* performFetch and not yet settled.
Outstanding(url) ==
    {c \in 1..Len(calls) :
        /\ callUrls[c] = url
        /\ calls[c].awaits = c
        /\ calls[c].pc \in {"waitSlot", "debounce", "granted", "fetching"}}

\* The requests that inflightRequests holds for url.
EntriesFor(url) ==
    {i \in 1..Len(inflightRequests) : inflightRequests[i].url = url}

\* At most one request per url is outstanding and at most one is recorded; a
\* call that did not create the request it awaits awaits the recorded one of
\* its url, never fetches, and ends with that request's outcome.
C12_OnePerUrl ==
    /\ \A url \in Range(callUrls) :
           /\ Cardinality(Outstanding(url)) <= 1
           /\ Cardinality(EntriesFor(url)) <= 1
           /\ \A c \in Outstanding(url) :
                  \E i \in EntriesFor(url) : inflightRequests[i].request = c
    /\ \A c \in 1..Len(calls) :
           (calls[c].pc # "idle" /\ calls[c].awaits # c) =>
               /\ calls[c].awaits \in 1..Len(calls)
               /\ callUrls[calls[c].awaits] = callUrls[c]
               /\ calls[calls[c].awaits].awaits = calls[c].awaits
               /\ calls[c].pc \in {"joined", "done"}
               /\ calls[c].pc = "done" =>
                      /\ calls[c].outcome # Null
                      /\ calls[c].outcome = calls[calls[c].awaits].outcome

\* A call made while its url is recorded changes neither the map nor the
\* counters, and starts no request.
C12_JoinStartsNothing ==
    \A c \in 1..Len(calls) :
        (/\ calls[c].pc = "idle" /\ calls'[c].pc # "idle"
         /\ \E i \in 1..Len(inflightRequests) :
                inflightRequests[i].url = callUrls[c]) =>
            /\ inflightRequests' = inflightRequests
            /\ activeRequests' = activeRequests
            /\ anonRequestCount' = anonRequestCount
            /\ calls'[c].awaits # c

\* C12: in every interleaving of fetchAPI calls at most one network fetch is
\* outstanding per url; a call made while a request for its url is in flight
\* starts no second fetch and settles with that request's outcome; and once a
\* request has settled, with success or with failure, its url's entry is
\* removed.
C12_DedupeByUrl ==
    /\ []C12_OnePerUrl
    /\ [][C12_JoinStartsNothing]_vars
    /\ \A c \in 1..(MAX_CONCURRENT + 1) :
           (c <= Len(calls) /\ calls[c].pc = "settled")
               ~> (/\ c <= Len(calls)
                   /\ calls[c].pc = "done"
                   /\ EntriesFor(callUrls[c]) = {})

\* Three calls for one url: the second and the third joined the first one's
\* request, which failed, and all three ended with its error after the entry
\* was removed.
C12_Witness ==
    /\ Len(calls) = 3
    /\ callUrls[1] = callUrls[2] /\ callUrls[2] = callUrls[3]
    /\ \A c \in 1..3 : calls[c].pc = "done" /\ calls[c].awaits = 1
    /\ calls[1].outcome = "GitHub API rate limit exceeded"
    /\ calls[3].outcome = calls[1].outcome
    /\ inflightRequests = <<>>

\* C13: the number of network fetches in progress never exceeds
\* MAX_CONCURRENT.
C13_ActiveWithinLimit == activeRequests <= MAX_CONCURRENT


\* A required component is present when some detected technology contains it
\* or is contained in it, letter case aside.
ClaimedPresent(tech, comp) ==
    \E i \in 1..Len(tech) :
        \/ Includes(ToLowerCase(tech[i]), ToLowerCase(comp))
        \/ Includes(ToLowerCase(comp), ToLowerCase(tech[i]))

\* An archetype of N components matches with 3 present when N >= 4 and with 2
\* present when N < 4.
ClaimedMatch(tech, components) ==
    Cardinality({j \in 1..Len(components) :
                    ClaimedPresent(tech, components[j])})
        >= (IF Len(components) >= 4 THEN 3 ELSE 2)

\* The names appended: the matching archetypes in table order, then the names
\* of the composite rules.
ClaimedAppended(tech) ==
    LET matching == SelectSeq(stackPatterns,
                              LAMBDA p : ClaimedMatch(tech, p.components))
        names    == [i \in 1..Len(matching) |-> matching[i].name]
    IN  names \o CompositeStacks(tech, names)

\* C14: detectFullStacks returns the first 4 of the names appended, the
\* archetypes appended being exactly those whose present components reach the
\* threshold (3 of N >= 4, 2 of N < 4), in table order and before the names
\* of the composite rules; no other archetype is returned.
C14_ArchetypesByThreshold ==
    stacksResult # Undefined =>
        LET appended == ClaimedAppended(stacksArgs)
            returned == stacksResult.stacks
        IN  /\ Len(returned) <= 4
            /\ returned = SubSeq(appended, 1, Min(4, Len(appended)))
            /\ \A i \in 1..Len(stackPatterns) :
                   stackPatterns[i].name \in Range(returned) =>
                       ClaimedMatch(stacksArgs, stackPatterns[i].components)

\* The languages C, Go and R contain no component and are contained in
\* components of six archetypes, of which the first four are returned.
C14_Witness ==
    /\ stacksResult # Undefined
    /\ stacksArgs = <<"C", "Go", "R">>
    /\ Len(ClaimedAppended(stacksArgs)) = 6
    /\ stacksResult.stacks = <<"MERN", "MEAN", "PERN", "Django Stack">>


\* The bytes the input holds for a language, over all language maps.
BytesOf(rs, language) ==
    LET totals == LanguageTotals(rs)
    IN  SumSeq([i \in 1..Len(totals) |->
                   IF totals[i].language = language THEN totals[i].bytes ELSE 0])

\* ranked lists distinct languages of the input by share of the bytes, largest
\* first, and no language it leaves out has a larger share than one it lists.
RankedByPercentage(rs, ranked) ==
    /\ \A i, j \in 1..Len(ranked) :
           i < j => /\ ranked[i] # ranked[j]
                    /\ BytesOf(rs, ranked[i]) >= BytesOf(rs, ranked[j])
    /\ Range(ranked) \subseteq InputLanguages(rs)
    /\ \A l \in InputLanguages(rs) \ Range(ranked) :
           \A i \in 1..Len(ranked) : BytesOf(rs, l) <= BytesOf(rs, ranked[i])

\* The technologies detected in an analysis, read from its result: the
\* frameworks, the tools that count as technologies, the first five languages.
DetectedIn(res) ==
    res.skillAnalysis.techStack.frameworks
    \o SelectSeq(res.skillAnalysis.techStack.tools,
                 LAMBDA t : t \in {"Docker", "Kubernetes", "Terraform"})
    \o Languages(Slice(res.skillAnalysis.topLanguages, 0, 5))

\* The archetype list of an analysis: the first 4 names appended for its
\* detected technologies.
ArchetypesOf(res) ==
    LET appended == ClaimedAppended(DetectedIn(res))
    IN  SubSeq(appended, 1, Min(4, Len(appended)))

\* C15: techStack.primary is the detected archetype list when that list is not
\* empty and the three languages with the largest percentages otherwise;
\* techStack.secondary is the languages ranked fourth to sixth by percentage
\* in both cases.
C15_PrimaryAndSecondary ==
    Done =>
        LET ranked == Languages(Slice(result.skillAnalysis.topLanguages, 0, 6))
            n      == Len(ranked)
            stacks == ArchetypesOf(result)
            tech   == result.skillAnalysis.techStack
        IN  /\ RankedByPercentage(repos, ranked)
            /\ n = Min(6, Cardinality(InputLanguages(repos)))
            /\ tech.primary = (IF stacks # <<>> THEN stacks
                               ELSE SubSeq(ranked, 1, Min(3, n)))
            /\ tech.secondary = SubSeq(ranked, 4, n)

\* An analysis detected an archetype, so that primary holds no language, and
\* secondary holds the three languages ranked fourth to sixth, the fourth
\* with more bytes than the sixth.
C15_Witness ==
    /\ Done
    /\ ArchetypesOf(result) # <<>>
    /\ result.skillAnalysis.techStack.primary = ArchetypesOf(result)
    /\ Len(result.skillAnalysis.techStack.secondary) = 3
    /\ BytesOf(repos, result.skillAnalysis.techStack.secondary[1])
           > BytesOf(repos, result.skillAnalysis.techStack.secondary[3])
    /\ Range(result.skillAnalysis.techStack.primary) \cap InputLanguages(repos) = {}


\* The repositories whose text (topics, description, name; lower case) holds
\* one of the keys: a repository counts once however many keys it holds.
ReposNaming(rs, keys) ==
    {i \in 1..Len(rs) : \E k \in keys : Includes(SearchText(rs[i]), k)}

TestingHitsOf(rs) ==
    Cardinality(ReposNaming(rs, {"test", "spec", "jest", "pytest", "cypress",
                                 "vitest", "mocha", "unit"}))

AutomationHitsOf(rs) ==
    Cardinality(ReposNaming(rs, {"github-actions", "workflow", "ci", "pipeline",
                                 "continuous", "deployment", "travis", "circleci",
                                 "azure-pipelines", "gitlab-ci"}))

DocumentationHitsOf(rs) ==
    Cardinality(ReposNaming(rs, {"docs", "documentation", "wiki", "guide",
                                 "handbook", "storybook", "readme"})
                \cup {i \in 1..Len(rs) : /\ rs[i].description # Null
                                         /\ Len(rs[i].description) > 80})

\* The label of a hit ratio hits / total: upper from highPercent / 100,
\* middle from lowPercent / 100, lower below.
LabelOf(hits, total, highPercent, upper, lowPercent, middle, lower) ==
    IF 100 * hits >= highPercent * total THEN upper
    ELSE IF 100 * hits >= lowPercent * total THEN middle
    ELSE lower

\* C18: for a non-empty repository list the labels follow the hit ratios by
\* the thresholds 0.35 / 0.18 (testing), 0.30 / 0.15 (automation) and
\* 0.45 / 0.20 (documentation), every repository counting at most once for a
\* signal, and releaseCadence follows medianUpdateInterval by the bounds
\* 14, 30, 60 and 120.
C18_QualityThresholds ==
    (Done /\ repos # <<>>) =>
        LET total    == Len(repos)
            interval == result.activity.medianUpdateInterval
        IN  /\ result.quality.testing =
                   LabelOf(TestingHitsOf(repos), total,
                           35, "Strong", 18, "Moderate", "Sparse")
            /\ result.quality.automation =
                   LabelOf(AutomationHitsOf(repos), total,
                           30, "Advanced", 15, "Basic", "None")
            /\ result.quality.documentation =
                   LabelOf(DocumentationHitsOf(repos), total,
                           45, "Comprehensive", 20, "Moderate", "Sparse")
            /\ result.quality.releaseCadence =
                   (CASE interval <= 14  -> "Weekly"
                      [] interval > 14 /\ interval <= 30   -> "Biweekly"
                      [] interval > 30 /\ interval <= 60   -> "Monthly"
                      [] interval > 60 /\ interval <= 120  -> "Quarterly"
                      [] interval > 120 -> "Ad-hoc")

\* Twenty repositories of which seven name testing keywords (0.35 exactly,
\* Strong), each of the seven naming several keywords of every signal, with
\* automation Advanced and documentation below 0.45.
C18_Witness ==
    /\ Done
    /\ Len(repos) = 20
    /\ TestingHitsOf(repos) = 7
    /\ AutomationHitsOf(repos) = 7
    /\ DocumentationHitsOf(repos) = 7
    /\ result.quality.testing = "Strong"
    /\ result.quality.automation = "Advanced"
    /\ result.quality.documentation = "Moderate"
    /\ result.quality.releaseCadence = "Weekly"


\* A required skill is satisfied by a tech stack when primary, frameworks or
\* tools holds it as written, or when a primary entry occurs in its name,
\* letter case aside.
ClaimedSatisfied(skill, techStack) ==
    \/ skill \in Range(techStack.primary) \cup Range(techStack.frameworks)
                 \cup Range(techStack.tools)
    \/ \E p \in Range(techStack.primary) :
           Includes(ToLowerCase(skill), ToLowerCase(p))

SatisfiedSkills(entry, techStack) ==
    {j \in 1..Len(entry.skills) : ClaimedSatisfied(entry.skills[j], techStack)}

\* list holds distinct elements of order, in the order they have there.
InOrderOf(list, order) ==
    /\ Range(list) \subseteq Range(order)
    /\ \A i, j \in 1..Len(list) :
           i < j => \E a, b \in 1..Len(order) :
                        a < b /\ order[a] = list[i] /\ order[b] = list[j]

NoDuplicates(list) == \A i, j \in 1..Len(list) : i # j => list[i] # list[j]

\* The strings identifyOpportunities can add, in the order of its rules.
RolesInOrder == [i \in 1..Len(techStackMapping) |-> techStackMapping[i].role]

IndustriesInOrder ==
    <<"Web Development", "SaaS", "AI/ML", "Data Science", "Cloud Computing",
      "DevOps", "Mobile Apps", "Backend Services", "API Development">>

RecommendationsInOrder ==
    <<"Expand project variety to demonstrate breadth and foundational skills.",
      "Join collaborative open-source repositories to grow teamwork experience.",
      "Deepen expertise in flagship stack components through advanced builds.",
      "Take on architectural responsibilities in collaborative projects.",
      "Share expertise via mentorship, talks, or open-source leadership.",
      "Lean into architecture and scaling concerns across flagship repos.">>

NextActionsInOrder ==
    <<"Ship a small production-ready project end-to-end this month.",
      "Document design decisions and publish a technical case study.",
      "Formalize long-term roadmap for your most active repositories.",
      "Increase public project cadence to highlight ongoing maintenance.",
      "Introduce automated test coverage on highlighted repositories.",
      "Set up a CI/CD workflow (GitHub Actions, CircleCI, or similar).",
      "Upgrade README and docs with architecture notes and usage guides.",
      "Plan bi-weekly release checkpoints to increase visible momentum.">>

\* C19: a job role is listed exactly when at least 2 of its required skills
\* are satisfied (held as written by primary, frameworks or tools, or with a
\* primary entry occurring in the skill's name, letter case aside); jobRoles,
\* industries, recommendations and nextActions hold no value twice and keep
\* the order in which the rules add their values.
C19_RolesAndDedupe ==
    Done =>
        LET techStack == result.skillAnalysis.techStack
            found     == result.opportunities
        IN  /\ \A i \in 1..Len(techStackMapping) :
                   techStackMapping[i].role \in Range(found.jobRoles)
                       <=> Cardinality(SatisfiedSkills(techStackMapping[i],
                                                       techStack)) >= 2
            /\ NoDuplicates(found.jobRoles)
            /\ NoDuplicates(found.industries)
            /\ NoDuplicates(found.recommendations)
            /\ NoDuplicates(found.nextActions)
            /\ InOrderOf(found.jobRoles, RolesInOrder)
            /\ InOrderOf(found.industries, IndustriesInOrder)
            /\ InOrderOf(found.recommendations, RecommendationsInOrder)
            /\ InOrderOf(found.nextActions, NextActionsInOrder)

\* A role is listed with exactly two satisfied skills, one of them held by
\* no list as written, next to a role that has one satisfied skill and is
\* not listed, with several industries and next actions found.
C19_Witness ==
    /\ Done
    /\ \E i \in 1..Len(techStackMapping) :
           LET techStack == result.skillAnalysis.techStack
               satisfied == SatisfiedSkills(techStackMapping[i], techStack)
           IN  /\ techStackMapping[i].role \in Range(result.opportunities.jobRoles)
               /\ Cardinality(satisfied) = 2
               /\ \E j \in satisfied :
                      techStackMapping[i].skills[j]
                          \notin Range(techStack.primary)
                                 \cup Range(techStack.frameworks)
                                 \cup Range(techStack.tools)
    /\ \E i \in 1..Len(techStackMapping) :
           /\ Cardinality(SatisfiedSkills(techStackMapping[i],
                                          result.skillAnalysis.techStack)) = 1
           /\ techStackMapping[i].role \notin Range(result.opportunities.jobRoles)
    /\ Len(result.opportunities.industries) >= 4
    /\ Len(result.opportunities.nextActions) >= 3


\* Medium < High < Very High
DemandRank(marketDemand) ==
    CASE marketDemand = "Low"       -> 0
      [] marketDemand = "Medium"    -> 1
      [] marketDemand = "High"      -> 2
      [] marketDemand = "Very High" -> 3

\* The value of the initial rule, from the velocity score and the
\* automation label of the result.
ClaimedInitialDemand(res) ==
    IF res.activity.velocityScore >= 70 \/ res.quality.automation = "Advanced"
    THEN "Very High"
    ELSE IF res.activity.velocityScore >= 50 THEN "High"
    ELSE "Medium"

\* C20: through the rules of predictFuture marketDemand never falls along
\* Medium < High < Very High, and the value returned is at least the value of
\* the initial velocity / automation rule.
C20_DemandOnlyRises ==
    Done =>
        LET steps == DemandSteps(result.skillAnalysis, result.quality,
                                 result.activity)
        IN  /\ steps[1] = ClaimedInitialDemand(result)
            /\ \A i, j \in 1..Len(steps) :
                   i < j => DemandRank(steps[i]) <= DemandRank(steps[j])
            /\ result.futurePrediction.marketDemand = steps[Len(steps)]
            /\ DemandRank(result.futurePrediction.marketDemand)
                   >= DemandRank(ClaimedInitialDemand(result))

\* The initial rule gave Very High, and the Python rule and the frontend
\* rule, which set High elsewhere, then ran with no container rule after
\* them: Very High is returned.
C20_Witness ==
    /\ Done
    /\ ClaimedInitialDemand(result) = "Very High"
    /\ "Python" \in Range(result.skillAnalysis.techStack.primary)
    /\ \E f \in {"React", "Vue", "Angular"} :
           f \in Range(result.skillAnalysis.techStack.frameworks)
    /\ {"Docker", "Kubernetes"} \cap Range(result.skillAnalysis.techStack.tools) = {}
    /\ result.futurePrediction.marketDemand = "Very High"


\* One of the stack rules of predictFuture fired for the analysed stack.
StackRuleFired(techStack) ==
    \/ "JavaScript" \in Range(techStack.primary)
    \/ "TypeScript" \in Range(techStack.primary)
    \/ "Python" \in Range(techStack.primary)
    \/ "Docker" \in Range(techStack.tools)
    \/ "Kubernetes" \in Range(techStack.tools)
    \/ Range(techStack.frameworks) \cap {"React", "Vue", "Angular"} # {}

UniversalGrowthAreas == {"Cloud Computing", "DevOps", "Automation"}

UniversalSkills == {"System Design", "Cloud Architecture", "Security Best Practices"}

\* C21 as stated: the universal entries are in growthAreas, and in
\* skillsToLearn, exactly when no stack rule fired, and neither list holds a
\* value twice.
C21_UniversalOnlyAsFallback ==
    Done =>
        LET fired == StackRuleFired(result.skillAnalysis.techStack)
            found == result.futurePrediction
        IN  /\ UniversalGrowthAreas \subseteq Range(found.growthAreas) <=> ~fired
            /\ UniversalSkills \subseteq Range(found.skillsToLearn) <=> ~fired
            /\ NoDuplicates(found.growthAreas)
            /\ NoDuplicates(found.skillsToLearn)

\* C21 amended: the universal growth areas are in growthAreas exactly when no
\* stack rule fired (and are then the whole list); the universal skills are
\* the last three entries of skillsToLearn whether or not a rule fired; neither
\* list holds a value twice.
C21_UniversalSkillsAlways ==
    Done =>
        LET fired == StackRuleFired(result.skillAnalysis.techStack)
            found == result.futurePrediction
            n     == Len(found.skillsToLearn)
        IN  /\ UniversalGrowthAreas \subseteq Range(found.growthAreas) <=> ~fired
            /\ UniversalGrowthAreas \cap Range(found.growthAreas) # {} <=> ~fired
            /\ ~fired => found.growthAreas = <<"Cloud Computing", "DevOps", "Automation">>
            /\ n >= 3
            /\ SubSeq(found.skillsToLearn, n - 2, n)
                   = <<"System Design", "Cloud Architecture",
                       "Security Best Practices">>
            /\ n > 3 <=> fired
            /\ NoDuplicates(found.growthAreas)
            /\ NoDuplicates(found.skillsToLearn)

\* The JavaScript, Python and frontend rules fired: growthAreas holds their
\* five entries and no universal one, and skillsToLearn holds their nine
\* entries followed by the universal skills.
C21_Witness ==
    /\ Done
    /\ "Python" \in Range(result.skillAnalysis.techStack.primary)
    /\ "JavaScript" \in Range(result.skillAnalysis.techStack.primary)
    /\ "React" \in Range(result.skillAnalysis.techStack.frameworks)
    /\ Len(result.futurePrediction.growthAreas) = 5
    /\ UniversalGrowthAreas \cap Range(result.futurePrediction.growthAreas) = {}
    /\ Len(result.futurePrediction.skillsToLearn) = 12
    /\ UniversalSkills \subseteq Range(result.futurePrediction.skillsToLearn)


\* The smallest position of a non-empty set of positions.
FirstOf(S) == CHOOSE i \in S : \A j \in S : i <= j

\* The position, among S, of the repository with the most stars (the first
\* such in list order).
TopStarredOf(rs, S) ==
    FirstOf({i \in S : \A j \in S : rs[j].stargazers_count <= rs[i].stargazers_count})

\* The position, among S, of the repository updated last (the first such in
\* list order).
LastUpdatedOf(rs, S) ==
    FirstOf({i \in S : \A j \in S : rs[j].updated_at <= rs[i].updated_at})

\* The repository's primary language or a key of its language map is a
\* priority language, letter case aside.
HasPriorityLanguage(repo, priority) ==
    \E l \in Range(priority) :
        \/ ToLowerCase(IF repo.language = Null THEN "" ELSE repo.language)
               = ToLowerCase(l)
        \/ /\ repo.languageStats # Undefined
           /\ \E k \in 1..Len(repo.languageStats.entries) :
                  ToLowerCase(repo.languageStats.entries[k].language)
                      = ToLowerCase(l)

\* picks with one more pick, unless a repository of that name is picked.
WithPick(rs, picks, i, reason) ==
    IF \E k \in 1..Len(picks) : rs[picks[k].at].name = rs[i].name
    THEN picks
    ELSE Append(picks, [at |-> i, reason |-> reason])

\* The place of position i in descending star order, ties in list order.
StarPlace(rs, i) ==
    1 + Cardinality({j \in 1..Len(rs) :
                        \/ rs[j].stargazers_count > rs[i].stargazers_count
                        \/ /\ rs[j].stargazers_count = rs[i].stargazers_count
                           /\ j < i})

\* The picks of the first three steps, for a non-empty list.
StepPicks(rs, priority) ==
    LET all     == 1..Len(rs)
        starred == {i \in all : rs[i].stargazers_count >= 5}
        aligned == {i \in all : HasPriorityLanguage(rs[i], priority)}
        p1 == <<[at |-> TopStarredOf(rs, all), reason |-> "Top starred"]>>
        p2 == WithPick(rs, p1,
                       LastUpdatedOf(rs, IF starred # {} THEN starred ELSE all),
                       "Recent")
    IN  IF aligned = {} THEN p2
        ELSE WithPick(rs, p2, TopStarredOf(rs, aligned), "Core stack")

\* The positions picked as "Popular" after the picks of the first three
\* steps: in descending star order, every repository whose name is not picked
\* yet, while fewer than min(3, repository count) are picked.
PopularPicks(rs, picks) ==
    LET all      == 1..Len(rs)
        target   == IF Len(rs) < 3 THEN Len(rs) ELSE 3
        fresh(i) == /\ \A k \in 1..Len(picks) : rs[picks[k].at].name # rs[i].name
                    /\ \A j \in all : StarPlace(rs, j) < StarPlace(rs, i)
                                          => rs[j].name # rs[i].name
        before(i) == Cardinality({j \in all : /\ fresh(j)
                                              /\ StarPlace(rs, j) < StarPlace(rs, i)})
    IN  {i \in all : fresh(i) /\ Len(picks) + before(i) < target}

\* C22: the highlights are, in this order and never two of one name: the
\* highest-starred repository ("Top starred"); the most recently updated one
\* with 5 stars or more, or the most recently updated one when none has 5
\* ("Recent"); the highest-starred one with a priority language ("Core
\* stack"); then repositories in descending star order ("Popular") until
\* min(3, repository count) are listed or none is left.
C22_HighlightOrder ==
    (Done /\ repos # <<>>) =>
        LET h       == result.highlights
            picks   == StepPicks(repos, Languages(result.skillAnalysis.topLanguages))
            popular == PopularPicks(repos, picks)
            n       == Len(picks)
        IN  /\ Len(h) = n + Cardinality(popular)
            /\ \A k \in 1..n :
                   /\ h[k].reason = picks[k].reason
                   /\ h[k].name = repos[picks[k].at].name
                   /\ h[k].stars = repos[picks[k].at].stargazers_count
                   /\ h[k].lastUpdated = repos[picks[k].at].updated_at
                   /\ h[k].createdAt = repos[picks[k].at].created_at
            /\ \A k \in (n + 1)..Len(h) :
                   /\ h[k].reason = "Popular"
                   /\ \E i \in popular :
                          /\ h[k].name = repos[i].name
                          /\ h[k].stars = repos[i].stargazers_count
                          /\ h[k].lastUpdated = repos[i].updated_at
                          /\ Cardinality({j \in popular :
                                 StarPlace(repos, j) < StarPlace(repos, i)})
                                 = k - n - 1

\* Three repositories gave "Top starred", then "Recent" for a repository
\* that has 5 stars or more and is not the one updated last, then "Popular":
\* the repository with a priority language was picked already.
C22_Witness ==
    /\ Done
    /\ Len(repos) = 3
    /\ Len(result.highlights) = 3
    /\ result.highlights[1].reason = "Top starred"
    /\ result.highlights[2].reason = "Recent"
    /\ result.highlights[3].reason = "Popular"
    /\ \E i \in 1..Len(repos) :
           repos[i].updated_at > result.highlights[2].lastUpdated


\* The repositories whose primary language or language map holds the
\* language, letter case aside.
ReposHolding(rs, language) ==
    {i \in 1..Len(rs) : HasPriorityLanguage(rs[i], <<language>>)}

\* The timeline events that record the adoption of the language.
AdoptionEventsOf(timeline, rs, language) ==
    {k \in 1..Len(timeline) :
        /\ timeline[k].title = language \o " adoption"
        /\ \E i \in 1..Len(rs) :
               timeline[k].description
                   = rs[i].name \o " introduced " \o language \o " into the portfolio"}

\* The title is that of the first-repository event of some repository.
TitleOfFirstRepository(rs, title) ==
    \E i \in 1..Len(rs) : title = "First repository " \o Bullet \o " " \o rs[i].name

\* C23: for a non-empty repository list the timeline holds, for each of the
\* three first languages, at most one adoption event, dated by the creation
\* year of the earliest-created repository that holds the language (primary
\* language or language map, letter case aside), and none when no repository
\* holds it; the event is there when a repository holds the language and its
\* title is not that of a first-repository event; the timeline holds no
\* adoption event for any other language and never more than 6 events.
C23_AdoptionEvents ==
    (Done /\ repos # <<>>) =>
        LET t     == result.timeline
            top   == Languages(Slice(result.skillAnalysis.topLanguages, 0, 3))
            first == SetMin({repos[i].created_at : i \in 1..Len(repos)})
        IN  /\ Len(t) <= 6
            /\ \A l \in Range(top) :
                   LET holding == ReposHolding(repos, l)
                       events  == AdoptionEventsOf(t, repos, l)
                   IN  /\ Cardinality(events) <= 1
                       /\ holding = {} => events = {}
                       /\ (holding # {} /\ ~TitleOfFirstRepository(repos, l \o " adoption"))
                              => Cardinality(events) = 1
                       /\ \A k \in events :
                              /\ holding # {}
                              /\ t[k].year = GetFullYear(
                                     SetMin({repos[i].created_at : i \in holding}))
            /\ \A l \in InputLanguages(repos) \ Range(top) :
                   AdoptionEventsOf(t, repos, l) = {}

\* The timeline holds six events; a language's adoption is dated by a
\* repository that names it in another letter case and only as primary
\* language, created in an earlier year than each repository whose language
\* map holds it; a fourth language has no adoption event.
C23_Witness ==
    /\ Done
    /\ Len(result.timeline) = 6
    /\ Len(result.skillAnalysis.topLanguages) > 3
    /\ \E k \in AdoptionEventsOf(result.timeline, repos, "Python") :
           /\ \A i \in 1..Len(repos) :
                  LanguageEntries(repos[i]) # <<>>
                      => GetFullYear(repos[i].created_at) > result.timeline[k].year
           /\ \E i \in 1..Len(repos) :
                  /\ repos[i].language = "python"
                  /\ GetFullYear(repos[i].created_at) = result.timeline[k].year


\* The repositories in whose text (topics, description, name; lower case) a
\* keyword of the lexicon entry occurs.
ReposDetecting(rs, entry) ==
    ReposNaming(rs, Range(entry.keywords))

\* The instant 12 months before the analysis.
TwelveMonthsAgo == now - yearMs

\* C24: a lexicon technology detected in 2 or more repositories is in core;
\* one detected in exactly 1 is in supporting unless the first four entries
\* of primary put it in core; one detected in a repository updated in the
\* last 12 months and in neither core nor supporting is in emerging; the
\* primary language of a repository created or updated in the last 12 months
\* that is in neither core nor supporting is in emerging.
C24_StackDepthPlacement ==
    Done =>
        LET depth   == result.skillAnalysis.stackDepth
            primary == Slice(result.skillAnalysis.techStack.primary, 0, 4)
            placed  == Range(depth.core) \cup Range(depth.supporting)
        IN  /\ \A e \in 1..Len(frameworkKeywords) :
                   LET entry     == frameworkKeywords[e]
                       detecting == ReposDetecting(repos, entry)
                   IN  /\ Cardinality(detecting) >= 2
                           => entry.name \in Range(depth.core)
                       /\ Cardinality(detecting) = 1
                           => IF entry.name \in Range(primary)
                              THEN entry.name \in Range(depth.core)
                              ELSE entry.name \in Range(depth.supporting)
                       /\ (/\ \E i \in detecting :
                                  repos[i].updated_at >= TwelveMonthsAgo
                           /\ entry.name \notin placed)
                           => entry.name \in Range(depth.emerging)
            /\ \A i \in 1..Len(repos) :
                   (/\ \/ repos[i].updated_at >= TwelveMonthsAgo
                       \/ repos[i].created_at >= TwelveMonthsAgo
                    /\ repos[i].language # Null
                    /\ repos[i].language # ""
                    /\ repos[i].language \notin placed)
                       => repos[i].language \in Range(depth.emerging)

\* One technology is detected in two repositories and is in core, another in
\* one repository and is in supporting, and a repository has its primary
\* language in emerging.
C24_Witness ==
    /\ Done
    /\ \E e \in 1..Len(frameworkKeywords) :
           /\ Cardinality(ReposDetecting(repos, frameworkKeywords[e])) = 2
           /\ frameworkKeywords[e].name \in Range(result.skillAnalysis.stackDepth.core)
    /\ \E e \in 1..Len(frameworkKeywords) :
           /\ Cardinality(ReposDetecting(repos, frameworkKeywords[e])) = 1
           /\ frameworkKeywords[e].name
                  \in Range(result.skillAnalysis.stackDepth.supporting)
    /\ \E i \in 1..Len(repos) :
           /\ repos[i].language # Null
           /\ repos[i].language \in Range(result.skillAnalysis.stackDepth.emerging)


\* The calls whose own request passed the anonymous limit.
AdmittedCalls ==
    {c \in 1..Len(calls) : /\ calls[c].pc # "idle"
                           /\ calls[c].awaits = c
                           /\ calls[c].outcome # AnonymousLimitError}

\* The calls whose own request was refused by the anonymous limit.
RejectedCalls ==
    {c \in 1..Len(calls) : /\ calls[c].awaits = c
                           /\ calls[c].outcome = AnonymousLimitError}

\* Call c makes its own request in this step.
MakesRequest(c) ==
    /\ calls[c].pc = "idle"
    /\ calls'[c].pc # "idle"
    /\ calls'[c].awaits = c

\* What the claim says of a request made at nowMs.
ClaimedLimitStep(c) ==
    LET rejected  == calls'[c].outcome = AnonymousLimitError
        restarted == nowMs - anonWindowStart > 60000
        before    == IF restarted THEN 0 ELSE anonRequestCount
    IN  IF token
        THEN /\ ~rejected
             /\ UNCHANGED <<anonWindowStart, anonRequestCount>>
        ELSE /\ anonWindowStart' = (IF restarted THEN nowMs ELSE anonWindowStart)
             /\ anonRequestCount' = before + 1
             /\ rejected <=> before >= 25
             /\ rejected => /\ activeRequests' = activeRequests
                            /\ calls'[c].pc = "settled"

\* C25: without a token at most 25 requests are admitted in one 60 s window
\* from anonWindowStart; a further request fails with the 'Too many GitHub
\* requests' error without a network call and without changing
\* activeRequests; the counter restarts once more than 60 s have passed since
\* the window start; with a token no request is refused or counted.
C25_AnonymousWindow ==
    /\ [](/\ (~token /\ anonWindowStart = UsedWindow.anonWindowStart)
               => UsedWindow.anonRequestCount + Cardinality(AdmittedCalls) <= 25
          /\ token => anonRequestCount = 0 /\ RejectedCalls = {}
          /\ \A c \in RejectedCalls : calls[c].pc \in {"settled", "done"})
    /\ [][/\ \A c \in 1..Len(calls) : MakesRequest(c) => ClaimedLimitStep(c)
          /\ (\A c \in 1..Len(calls) : ~MakesRequest(c))
                 => UNCHANGED <<anonWindowStart, anonRequestCount>>
          /\ \A c \in RejectedCalls : calls'[c].pc # "fetching"]_vars

\* Without a token, in a window that already counts 24 requests: one call is
\* admitted as the 25th, the next is refused and has settled without a
\* fetch, and a call made more than 60 s after the window start is admitted
\* in a new window.
C25_Witness ==
    /\ ~token
    /\ Len(calls) = 3
    /\ AdmittedCalls = {1, 3}
    /\ RejectedCalls = {2}
    /\ calls[2].pc = "done"
    /\ anonWindowStart > UsedWindow.anonWindowStart + 60000
    /\ anonRequestCount = 1


\* analyzeUser has resolved: its value is, or has been, the argument list of
\* analyzeRepositories (Analysis.tsx lines 59-61).
HandedToEngine == pc \in {"call", "done"}

\* At most 5 recent pull requests, each open, closed or merged.
RecentPRsBounded(stats) ==
    /\ Len(stats.recentPRs) <= 5
    /\ \A i \in 1..Len(stats.recentPRs) :
           stats.recentPRs[i].state \in {"open", "closed", "merged"}

\* C26 as stated: the ContributionStats analyzeUser hands to the engine is
\* absent when the events feed is empty; when present, recentPRs has at most
\* 5 entries, each open, closed or merged.
C26_AbsentWhenFeedEmpty ==
    HandedToEngine =>
        /\ ServerEvents(Username) = <<>> => contributions = Undefined
        /\ contributions # Undefined => RecentPRsBounded(contributions)

\* C26 as amended: the ContributionStats analyzeUser hands to the engine is
\* always present; for an empty feed its counts are 0 and recentPRs is empty;
\* recentPRs has at most 5 entries, each open, closed or merged; the engine
\* returns it unchanged.
C26_PresentWhenFeedEmpty ==
    HandedToEngine =>
        /\ contributions # Undefined
        /\ ServerEvents(Username) = <<>> =>
               /\ contributions.recentPRs = <<>>
               /\ contributions.totalPRs = 0 /\ contributions.mergedPRs = 0
               /\ contributions.openPRs = 0 /\ contributions.totalIssues = 0
               /\ contributions.closedIssues = 0
        /\ RecentPRsBounded(contributions)
        /\ pc = "done" => result.contributions = contributions

\* A feed with eight opened pull requests, seven of them with a pull_request
\* payload, has been parsed: five are listed, of all three states.
C26_Witness ==
    /\ pc = "call"
    /\ Len(SelectSeq(ServerEvents(Username),
                     LAMBDA e : /\ e.type = "PullRequestEvent"
                                /\ e.payload.action = "opened"
                                /\ e.payload.pull_request # Undefined)) = 7
    /\ contributions.totalPRs = 8
    /\ Len(contributions.recentPRs) = 5
    /\ {contributions.recentPRs[i].state : i \in 1..5} = {"open", "closed", "merged"}

\* The request of fetchAPI call c has failed.
RequestFailed(c) == calls[c].outcome \notin {Null, "resolved"}

\* C28 as stated: when the events request fails (a network error, a response
\* that is not ok, the anonymous limit), getUserEvents yields an empty list
\* and analyzeUser does not fail on it.
C28_EventsFailureTolerated ==
    /\ (calls # <<>> /\ calls[3].pc = "done" /\ RequestFailed(3)) =>
           LET events == getUserEvents(Settled(3, ServerEvents(Username)))
           IN  ~events.rejected /\ events.value = <<>>
    /\ pc = "rejected" => RequestFailed(1) \/ RequestFailed(2)

\* What the claim says of repository i of the value analyzeUser resolves with.
ClaimedLanguageStats(i) ==
    LET repo == ServerRepo(Username, i)
    IN  IF i <= 15
        THEN IF RequestFailed(LanguageCall(i)) THEN [entries |-> <<>>]
             ELSE ServerLanguages(Username, i)
        ELSE IF repo.language \in {Null, ""} THEN [entries |-> <<>>]
             ELSE [entries |-> <<Entry(repo.language, 1)>>]

\* C29: a failed language request of one of the first 15 repositories leaves
\* that repository with an empty language map and every other with its own
\* fetched map; analyzeUser does not fail on it and resolves with all
\* repositories in their order, those after the 15th with the single entry
\* {primary language: 1} or an empty map.
C29_LanguageFailureIsLocal ==
    /\ [](HandedToEngine =>
            /\ Len(repos) = ServerRepoCount(Username)
            /\ \A i \in 1..Len(repos) :
                   /\ repos[i].name = ServerRepo(Username, i).name
                   /\ repos[i].html_url = ServerRepo(Username, i).html_url
                   /\ repos[i].language = ServerRepo(Username, i).language
                   /\ repos[i].languageStats = ClaimedLanguageStats(i))
    /\ [][pc = "languages" => pc' \in {"languages", "call"}]_vars

\* Seventeen repositories: the language requests of the 3rd and the 5th
\* failed (a 500 and a network error) and left empty maps, the 4th has its
\* fetched map, the 16th the single entry of its primary language and the
\* 17th, without primary language, an empty map.
C29_Witness ==
    /\ pc = "call"
    /\ Len(repos) = 17
    /\ RequestFailed(LanguageCall(3)) /\ RequestFailed(LanguageCall(5))
    /\ repos[3].languageStats = [entries |-> <<>>]
    /\ repos[5].languageStats = [entries |-> <<>>]
    /\ repos[4].languageStats = ServerLanguages("w", 4)
    /\ repos[16].languageStats = [entries |-> <<Entry("Go", 1)>>]
    /\ repos[17].language = Null
    /\ repos[17].languageStats = [entries |-> <<>>]


\* C27 as stated: determineExperienceLevel maps the band score as the comment
\* above its if-chain documents: 9 to 11 Expert, 6 to 8 Advanced, 3 to 5
\* Intermediate, 0 to 2 Beginner.
C27_LevelAsCommented ==
    levelResult # Null =>
        LET score == ClaimedScore(levelArgs)
        IN  /\ score \in 9..11 => levelResult = "Expert"
            /\ score \in 6..8  => levelResult = "Advanced"
            /\ score \in 3..5  => levelResult = "Intermediate"
            /\ score \in 0..2  => levelResult = "Beginner"


\* The state a run of analyzeGitHub for a route ends with when no other run
\* interferes, as the claim describes it.
ShownFor(r) ==
    IF AnalyzeUserFails(r.username)
    THEN [loading |-> FALSE, failed |-> TRUE, result |-> NoResult,
          comparison |-> NoResult, compareFailed |-> FALSE]
    ELSE [loading |-> FALSE, failed |-> FALSE,
          result |-> AnalysisOf(r.username),
          comparison |-> (IF /\ r.compare # ""
                             /\ ToLowerCase(r.compare) # ToLowerCase(r.username)
                             /\ ~AnalyzeUserFails(r.compare)
                          THEN AnalysisOf(r.compare) ELSE NoResult),
          compareFailed |-> (/\ r.compare # ""
                             /\ \/ ToLowerCase(r.compare) = ToLowerCase(r.username)
                                \/ AnalyzeUserFails(r.compare))]

\* The state the page shows.
Shown ==
    [loading |-> page.loading, failed |-> page.error # Null,
     result |-> page.result, comparison |-> page.comparison,
     compareFailed |-> page.compareError # Null]

\* Every run has ended and no timer is set.
RunsAtRest ==
    /\ runs # <<>>
    /\ timers = <<>>
    /\ \A r \in 1..Len(runs) : runs[r].pc = "finished"

\* C30 as stated: when the route changes while an earlier run is in flight,
\* result, comparison, error and loading end as the latest run leaves them,
\* and while the latest run is in flight no earlier run or timer of one
\* shows a result or turns loading off; a run whose comparison fails leaves
\* its result with compareError set and error null, a run whose primary
\* analysis fails leaves error set, result and comparison null, loading false.
C30_LatestRunShown ==
    /\ RunsAtRest => Shown = ShownFor(runs[Len(runs)])
    /\ (runs # <<>> /\ runs[Len(runs)].pc = "primary") =>
           /\ page.loading
           /\ page.result = NoResult
           /\ page.error = Null

====
